---- MODULE Spec2Model ----
(***************************************************************************)
(* Multiplayer party session of the word-guessing game                     *)
(* (src/multiplayer.js, with the board hooks of src/script.js).            *)
(*                                                                         *)
(* One party code is studied.  The shared store is one linearizable        *)
(* record: a write takes effect when it is issued, a read returns the      *)
(* record as it is when the read resolves, and a subscription callback     *)
(* runs with the value the store holds when it runs.  An `await` between   *)
(* a read and a write, or between two writes, of one function separates    *)
(* two actions; the position of a suspended function is kept in opc (an    *)
(* operation started by the user) or hpc (the host's relay).  Two          *)
(* shortenings are made, neither of which changes what reaches the store:  *)
(* the party read that opens startMpRound, handleChoosingPhase and         *)
(* showMpResults is taken in the step of the callback that calls them, and *)
(* the code that follows the acknowledgment of a function's last write and *)
(* touches only the client's own variables is taken in the step of that    *)
(* write.  One user operation runs at a time on a client, and it is one    *)
(* the page offers: a dialog's controls need the dialog open.  The events  *)
(* of a client's own write reach its own subscriptions at once, before     *)
(* anything else happens; the other clients hear of the write later.       *)
(*                                                                         *)
(* Three further specifications of the party session keep the players in   *)
(* the party: RotateSpec follows a custom party through three rounds,      *)
(* AgainSpec lets the host press Start or Play Again a second time while   *)
(* the first call is suspended, and KeySpec lets game keys through an open *)
(* dialog, as handleKey() does.                                            *)
(*                                                                         *)
(* Besides the party session (Spec, FairSpec, OpenSpec) and the identity   *)
(* acquisition (AuthSpec, AuthFairSpec), the module holds the board of a   *)
(* page that is in no party, with its hard mode (BoardSpec) and with the   *)
(* hooks of a party round (RoundSpec), and the pure functions of the two   *)
(* files, each called once on arguments drawn from a bounded set:          *)
(* evaluateGuess (EvalSpec), the sort of showMpResults (RankSpec),         *)
(* generatePartyCode (CodeSpec) and sanitizePlayerName (NameSpec).         *)
(***************************************************************************)
EXTENDS Integers, Sequences, FiniteSets, TLC

(* ------------------------------ bounds --------------------------------- *)
\* rounds the party may start (caps the store's round counter)
MaxRound == 2
\* rounds a party whose players stay may start
MaxRotation == 3
\* rows of the local board in the model (the program's MAX_GUESSES rows)
MaxRows == 1
\* changes of the anonymous identity token over a run
MaxAuthChanges == 1
\* rows of the board of a page that is in no party (MAX_GUESSES rows)
SoloRows == 3
\* reveal timers of the board that may be running at a time
MaxReveals == 2

(* ------------------------- program constants --------------------------- *)
WORD_LENGTH == 5
MIN_PLAYERS == 2
MAX_NAME_LENGTH == 20
MAX_TRIES == 3
PARTY_CODE_LENGTH == 6
\* new Uint8Array(6) of generatePartyCode
CODE_BYTES == 6

(* ------------------------------ universe ------------------------------- *)
NIL == "nil"
\* an absent numeric leaf and an absent string leaf of the store
NoNum == 0 - 1
NoWord == <<"nil">>
Creator == "h"
Guests == {"g1"}
Clients == {Creator} \cup Guests
\* the identity token a client holds after a session refresh
AltUid(c) == IF c = "h" THEN "h2" ELSE IF c = "g1" THEN "g12" ELSE "g22"
Ids == Clients \cup {AltUid(c) : c \in Clients}

Lower == {"a", "b", "c", "e", "n", "r", "t"}
Upper == {"A", "B", "C", "E", "N", "R", "T"}
toUpperChar(ch) ==
  CASE ch = "a" -> "A" [] ch = "b" -> "B" [] ch = "c" -> "C" [] ch = "e" -> "E"
    [] ch = "n" -> "N" [] ch = "r" -> "R" [] ch = "t" -> "T" [] OTHER -> ch
toUpperCase(w) == [i \in DOMAIN w |-> toUpperChar(w[i])]
\* /^[A-Za-z]{5}$/
IsAnything(w) == TRUE
IsProposable(w) == Len(w) = 5 /\ \A i \in DOMAIN w : w[i] \in Lower \cup Upper
\* /^[A-Z]+$/
IsUpperAlpha(w) == Len(w) >= 1 /\ \A i \in DOMAIN w : w[i] \in Upper

toLowerChar(ch) ==
  CASE ch = "A" -> "a" [] ch = "B" -> "b" [] ch = "C" -> "c" [] ch = "E" -> "e"
    [] ch = "N" -> "n" [] ch = "R" -> "r" [] ch = "T" -> "t" [] OTHER -> ch
toLowerCase(w) == [i \in DOMAIN w |-> toLowerChar(w[i])]

\* the answer list, as stored (lower case), and the accepted guesses
ANSWERS == {<<"a", "b", "a", "b", "a">>, <<"b", "a", "b", "a", "b">>}
ALL_VALID_WORDS == ANSWERS \cup {<<"b", "a", "c", "a", "a">>, <<"c", "a", "c", "a", "a">>}
isValidWord(word) == toLowerCase(word) \in ALL_VALID_WORDS
\* what a setter may type into the secret-word field
SecretInputs == {<<"a", "a", "a", "a", "a">>, <<"a", "b", "b", "a">>,
                 <<"a", "1", "b", "a", "a">>}
\* the rows a player may have typed when Enter is pressed
GuessInputs == {<<"A", "B", "A", "B", "A">>, <<"B", "A", "B", "A", "B">>,
                <<"A", "A", "A", "A", "A">>, <<"A", "B">>}

\* evaluateGuess(guess, target): the two passes over the letter arrays
Consumed == "_"
Undef == "?"
At(w, i) == IF i \in DOMAIN w THEN w[i] ELSE Undef
Positions == 1..WORD_LENGTH
CorrectAt(guess, target, i) == At(guess, i) = At(target, i)
\* a first pass that leaves targetArr as it was
TargetUntouched(guess, target) == target
\* targetArr and guessArr after the first pass
TargetAfterFirst(guess, target) ==
  [i \in 1..Len(target) |-> IF i \in Positions /\ CorrectAt(guess, target, i)
                               THEN Consumed ELSE target[i]]
GuessAfterFirst(guess, target) ==
  [i \in Positions |-> IF CorrectAt(guess, target, i) THEN Consumed ELSE At(guess, i)]
\* targetArr.indexOf(ch): 0 when absent
IndexOf(arr, ch) ==
  IF \E j \in DOMAIN arr : arr[j] = ch
    THEN CHOOSE j \in DOMAIN arr : arr[j] = ch /\ \A k \in DOMAIN arr : arr[k] = ch => j <= k
    ELSE 0
\* a second pass that marks without taking the letter out of targetArr
RECURSIVE SecondPassKeeps(_, _, _, _)
SecondPassKeeps(i, guessArr, targetArr, result) ==
  IF i > WORD_LENGTH THEN result
  ELSE IF guessArr[i] = Consumed THEN SecondPassKeeps(i + 1, guessArr, targetArr, result)
  ELSE IF IndexOf(targetArr, guessArr[i]) # 0
         THEN SecondPassKeeps(i + 1, guessArr, targetArr, [result EXCEPT ![i] = "present"])
         ELSE SecondPassKeeps(i + 1, guessArr, targetArr, result)
RECURSIVE SecondPass(_, _, _, _)
SecondPass(i, guessArr, targetArr, result) ==
  IF i > WORD_LENGTH THEN result
  ELSE IF guessArr[i] = Consumed THEN SecondPass(i + 1, guessArr, targetArr, result)
  ELSE LET idx == IndexOf(targetArr, guessArr[i])
       IN IF idx # 0
            THEN SecondPass(i + 1, guessArr, [targetArr EXCEPT ![idx] = Consumed],
                            [result EXCEPT ![i] = "present"])
            ELSE SecondPass(i + 1, guessArr, targetArr, result)
evaluateGuess(guess, target) ==
  SecondPass(1, GuessAfterFirst(guess, target), TargetAfterFirst(guess, target),
             [i \in Positions |-> IF CorrectAt(guess, target, i) THEN "correct" ELSE "absent"])
\* hardConstraints = { exactPositions: {}, mustContain: [] }
NoConstraints == [exactPositions |-> [pos \in {} |-> ""], mustContain |-> <<>>]
\* what a step of the board shows: a toast of submitGuess() or of the
\* hard-mode toggle, or nothing
NoToast == [kind |-> "none", pos |-> 0, letter |-> ""]
Toasted(k) == [kind |-> k, pos |-> 0, letter |-> ""]
\* the characters of the model besides the letters
Digits == {"1", "2"}
\* [A-Za-z0-9 '\-] of sanitizePlayerName
IsNameChar(ch) == ch \in Lower \cup Upper \cup Digits \cup {" ", "'", "-"}
\* replace(/\s+/g, ' ')
RECURSIVE collapseSpaces(_)
collapseSpaces(s) ==
  IF Len(s) <= 1 THEN s
  ELSE IF s[1] = " " /\ s[2] = " " THEN collapseSpaces(Tail(s))
  ELSE <<s[1]>> \o collapseSpaces(Tail(s))
\* String.prototype.trim
RECURSIVE trimStart(_)
trimStart(s) == IF s # <<>> /\ s[1] = " " THEN trimStart(Tail(s)) ELSE s
RECURSIVE trimEnd(_)
trimEnd(s) == IF s # <<>> /\ s[Len(s)] = " " THEN trimEnd(SubSeq(s, 1, Len(s) - 1)) ELSE s
trim(s) == trimEnd(trimStart(s))
\* slice(0, n)
slice(s, n) == SubSeq(s, 1, IF Len(s) < n THEN Len(s) ELSE n)
\* sanitizePlayerName(raw)
keepRawName(raw) == raw
sanitizePlayerName(raw) ==
  slice(trim(collapseSpaces(SelectSeq(raw, IsNameChar))), MAX_NAME_LENGTH)
\* what a player may type into the name field
NameInputs == {<<"!", " ">>, <<" ", "!", "a", " ", " ", "b", " ">>}
\* the code of the party of the model, as generatePartyCode() makes it
PartyCode == <<"A", "B", "A", "B", "2", "2">>
\* [A-Z0-9] of the code field's replace(/[^A-Z0-9]/g, '')
IsCodeChar(ch) == ch \in Upper \cup Digits
\* value.trim().toUpperCase().replace(/[^A-Z0-9]/g, '') of the code field
normalizeCode(raw) == SelectSeq(toUpperCase(trim(raw)), IsCodeChar)
\* what a player may type into the code field
CodeInputs == {<<" ", "a", "b", "-", "a", "b", "2", "2">>, <<"a", "b", "a", "b", "2">>,
               <<"b", "b", "a", "b", "2", "2">>}

\* values the form of mpSubmitSecretWord() refuses, which a client may still
\* put into its own proposedWord leaf (the store lets it write its own record)
RawProposals == {<<"a", "b", "b", "a">>, <<"a", "1", "b", "a", "a">>}

Kinds == {"lobbyPlayers", "lobbyMode", "lobbyStatus", "chooseStatus", "relay",
          "setterStatus", "watchPlayers", "watchStatus", "liveBoards",
          "roundEndPlayers", "roundEndStatus", "resultsStatus"}

\* the calls of ensureFirebaseReady() of one page that can overlap: the
\* warm-up at page load and the tap on Create or Join
Callers == {"warmup", "tap"}
\* what makes signInAnonymously() fail: a rejection with a message, one
\* without, the code auth/operation-not-allowed, the 12 s timer of withTimeout
SignInErrors == {"network", "noMessage", "notAllowed", "signInTimedOut"}
\* what makes waitForCurrentUser() fail: the error callback of
\* onAuthStateChanged, the 10 s timer
WaitErrors == {"observeFailed", "notReadyInTime"}
\* err && err.code === 'auth/operation-not-allowed'
RetriesAnyError(err) == FALSE
IsNotAllowed(err) == err = "notAllowed"
\* attempt < MAX_TRIES: the loop goes on after a failed attempt
NeverLast(a) == TRUE
HasTriesLeft(a) == a < MAX_TRIES
\* e && e.message ? e.message : 'Failed to sign in to multiplayer. ...'
MessageOf(err) == IF err = "noMessage" THEN "failedToSignIn" ELSE err

(* ------------------------------- state --------------------------------- *)
VARIABLES
  \* the party record parties/{code} of the shared store
  host, status, gameMode, round, targetWord, wordSetterIndex, wordQueue, players,
  \* whether the party code has been generated by createParty
  created,
  \* the identity provider's current token of each client
  authUid, authChanges,
  \* module state of multiplayer.js, per client
  mpActive, mpPlayerId, mpIsHost, mpGameMode, mpPartyRef, subs,
  mpLocalGuesses, mpDone, mpIsWordSetter,
  \* board state of script.js, per client
  boardTarget, currentRow, gameOver,
  \* what the page shows, per client
  modal, wordInput,
  \* suspended functions, per client, and their locals
  opc, opIds, opWord, hpc, hIds, hWord, relaySetter, pendingCount,
  \* history: the store's round counter when startMpRound() last ran on a client
  startedRound,
  \* what the step that led to this state reported to its user: a toast, or
  \* the rejection of an awaited store call
  told,
  \* the subscriptions of a client that its own write has just raised: the
  \* store client runs them before anything else happens
  sync,
  \* ensureFirebaseReady() of one page: auth.currentUser is set; the cached
  \* acquisition; the last error message; the position, the loop variable and
  \* the last error of the acquisition; a sign-in call abandoned by its
  \* timeout that the provider may still complete; the calls of the function
  currentUser, mpAuthReadyPromise, mpLastAuthErrorMessage, apc, attempt, lastErr,
  lateSignIn, cpc,
  \* history: the calls of signInAnonymously() made by the latest acquisition
  signIns,
  \* the pure functions of the two files, one call at a time: the function
  \* that has been called, then its arguments and what it returned
  called,
  evGuess, evTarget, evResult,
  codeBytes, codeOut,
  nameRaw, nameOut,
  resPlayers, resRows,
  \* the board of script.js on a page that is in no party: the word to find,
  \* the hard-mode setting and its constraints, the row in play and its
  \* letters, the reveal timers that have not fired yet, and what the last
  \* step showed to the user
  soloTarget, hardMode, hardConstraints, soloRow, soloOver, currentGuess, reveals,
  toast,
  \* mpActive, mpLocalGuesses.length, mpDone and mpIsWordSetter of that page
  \* when it takes part in a party whose store is left out
  pageActive, pageLocalGuesses, pageDone, pageIsWordSetter,
  \* the number of rounds the explored party may start: a bound of the
  \* exploration that the initial state fixes and no step changes
  roundCap

storeVars == <<host, status, gameMode, round, targetWord, wordSetterIndex, wordQueue, players>>
authVars == <<authUid, authChanges>>
idVars == <<mpPlayerId, mpIsHost, mpGameMode, mpPartyRef>>
\* the variables the phase handlers of a client set
phaseVars == <<mpActive, subs, mpLocalGuesses, mpDone, mpIsWordSetter,
               boardTarget, currentRow, gameOver, modal, wordInput, relaySetter,
               startedRound>>
opVars == <<opc, opIds, opWord>>
hVars == <<hpc, hIds, hWord>>
\* the variables of the identity acquisition
acqVars == <<currentUser, mpAuthReadyPromise, mpLastAuthErrorMessage, apc, attempt,
             lastErr, lateSignIn, cpc, signIns>>
\* the variables of the party session
partyVars == <<storeVars, created, authVars, idVars, phaseVars, opVars, hVars,
               pendingCount, told, sync>>
\* the arguments and the results of the pure functions
pureVars == <<called, evGuess, evTarget, evResult, codeBytes, codeOut, nameRaw, nameOut,
              resPlayers, resRows>>
\* the board of a page that is in no party
pageVars == <<pageActive, pageLocalGuesses, pageDone, pageIsWordSetter>>
boardVars == <<soloTarget, hardMode, hardConstraints, soloRow, soloOver, currentGuess,
               reveals, toast, pageVars>>
\* the variables no step of the party session changes
soloVars == <<pureVars, boardVars, roundCap>>
vars == <<partyVars, acqVars, soloVars>>

(* --------------------------- store helpers ----------------------------- *)
\* a player record; present: the node players/{id} has some leaf; named: it
\* has the name leaf, which only mpPlayerObj() writes.  The text of the
\* typing leaf is not kept: a write of it only makes the node present.
NoPlayer == [present |-> FALSE, named |-> FALSE, done |-> FALSE, won |-> FALSE,
             guessCount |-> 0, guesses |-> {}, isWordSetter |-> FALSE,
             proposedWord |-> NoWord]

mpPlayerObj == [present |-> TRUE, named |-> TRUE, done |-> FALSE, won |-> FALSE,
                guessCount |-> 0, guesses |-> {}, isWordSetter |-> FALSE,
                proposedWord |-> NoWord]

\* Object.keys(snap.val() || {}) of the players node
PlayerIds == {id \in Ids : players[id].present}

\* snap.exists() of parties/{code}
PartyExists ==
  \/ host # NIL \/ status # NIL \/ gameMode # NIL \/ round # NoNum
  \/ targetWord # NoWord \/ wordSetterIndex # NoNum \/ wordQueue # <<>>
  \/ PlayerIds # {}

\* queue[idx] of handleChoosingPhase and mpSubmitSecretWord (NIL: undefined)
LiveSetter ==
  LET idx == IF wordSetterIndex = NoNum THEN 0 ELSE wordSetterIndex
  IN IF idx + 1 \in DOMAIN wordQueue THEN wordQueue[idx + 1] ELSE NIL

\* all.length > 0 && all.every(p => p.done)
SomeDone == PlayerIds # {} /\ \E id \in PlayerIds : players[id].done
AllDone == PlayerIds # {} /\ \A id \in PlayerIds : players[id].done

Quiet == [by |-> NIL, msg |-> "none"]
\* showToast(...) of a function run by client c
Toast(c, m) == [by |-> c, msg |-> m]

\* ref.on('value', fn) for each kind of ks, on the registry S
RegisterIn(S, c, ks) == [S EXCEPT ![c] = [k \in Kinds |-> IF k \in ks THEN @[k] + 1 ELSE @[k]]]
Register(c, ks) == RegisterIn(subs, c, ks)
NoSubs == [k \in Kinds |-> 0]

\* ref.off('value', fn): one registered callback of kind k is removed
OffDropped(c, k) == subs
Off(c, k) == [subs EXCEPT ![c][k] = @ - 1]

\* the value a subscription of kind k of client c waits for is in the store
Cond(c, k) ==
  CASE k = "lobbyStatus" -> status \in {"choosing", "playing"}
    [] k \in {"chooseStatus", "setterStatus"} -> status = "playing"
    [] k \in {"roundEndStatus", "watchStatus"} -> status = "results"
    [] k = "resultsStatus" -> status \in {"playing", "choosing", "lobby"}
    [] k \in {"roundEndPlayers", "watchPlayers"} -> AllDone
    [] k = "relay" -> /\ relaySetter[c] \in Ids
                      /\ players[relaySetter[c]].proposedWord # NoWord
                      /\ IsProposable(players[relaySetter[c]].proposedWord)
    [] OTHER -> FALSE

NoSync == [by |-> NIL, kinds |-> {}]
\* no local event is being raised
Calm == sync.kinds = {}
\* the callback of kind k of client c may run
Due(c, k) == Calm \/ (sync.by = c /\ k \in sync.kinds)
\* A write raises the writer's own subscriptions on the written paths at once
\* (the events of a local write are synchronous); the subscriptions of the
\* other clients hear of it later.  After a step of client c, the kinds still
\* to run are those already raised, and those whose value the step produced.
Raise(c) ==
  LET before == IF sync.by = c THEN sync.kinds ELSE {}
      now == {k \in Kinds : /\ subs[c][k] > 0 /\ subs'[c][k] > 0
                            /\ (k \in before \/ ~Cond(c, k))
                            /\ Cond(c, k)'}
  IN sync' = IF now = {} THEN NoSync ELSE [by |-> c, kinds |-> now]

(* -------------------------------- Init --------------------------------- *)
\* the page before the first call of ensureFirebaseReady()
AcqInit ==
  /\ currentUser = FALSE
  /\ mpAuthReadyPromise = "null"
  /\ mpLastAuthErrorMessage = ""
  /\ apc = "none" /\ attempt = 0 /\ lastErr = "" /\ lateSignIn = FALSE
  /\ cpc = [k \in Callers |-> "idle"]
  /\ signIns = 0

FreshSession ==
  /\ host = NIL /\ status = NIL /\ gameMode = NIL /\ round = NoNum
  /\ targetWord = NoWord /\ wordSetterIndex = NoNum /\ wordQueue = <<>>
  /\ players = [id \in Ids |-> NoPlayer]
  /\ created = FALSE
  /\ authUid = [c \in Clients |-> c]
  /\ authChanges = 0
  /\ mpActive = [c \in Clients |-> FALSE]
  /\ mpPlayerId = [c \in Clients |-> NIL]
  /\ mpIsHost = [c \in Clients |-> FALSE]
  /\ mpGameMode = [c \in Clients |-> "classic"]
  /\ mpPartyRef = [c \in Clients |-> FALSE]
  /\ subs = [c \in Clients |-> NoSubs]
  /\ mpLocalGuesses = [c \in Clients |-> 0]
  /\ mpDone = [c \in Clients |-> FALSE]
  /\ mpIsWordSetter = [c \in Clients |-> FALSE]
  /\ boardTarget = [c \in Clients |-> toUpperCase(<<"a", "b", "a", "b", "a">>)]
  /\ currentRow = [c \in Clients |-> 0]
  /\ gameOver = [c \in Clients |-> FALSE]
  /\ modal = [c \in Clients |-> "none"]
  /\ wordInput = [c \in Clients |-> FALSE]
  /\ opc = [c \in Clients |-> "idle"]
  /\ opIds = [c \in Clients |-> {}]
  /\ opWord = [c \in Clients |-> NoWord]
  /\ hpc = [c \in Clients |-> "none"]
  /\ hIds = [c \in Clients |-> {}]
  /\ hWord = [c \in Clients |-> NoWord]
  /\ relaySetter = [c \in Clients |-> NIL]
  /\ pendingCount = [c \in Clients |-> 0]
  /\ startedRound = [c \in Clients |-> NoNum]
  /\ told = Quiet
  /\ sync = NoSync
  /\ AcqInit

\* a fresh session that may start MaxRound rounds
SessionInit == FreshSession /\ roundCap = MaxRound

\* no pure function has been called
PureIdle ==
  /\ called = "none"
  /\ evGuess = <<>> /\ evTarget = <<>> /\ evResult = <<>>
  /\ codeBytes = <<>> /\ codeOut = <<>>
  /\ nameRaw = <<>> /\ nameOut = <<>>
  /\ resPlayers = <<>> /\ resRows = <<>>
\* the board of the page is left out
BoardIdle ==
  /\ soloTarget = NoWord /\ hardMode = FALSE /\ hardConstraints = NoConstraints
  /\ soloRow = 0 /\ soloOver = FALSE
  /\ currentGuess = <<>> /\ reveals = <<>> /\ toast = NoToast
  /\ pageActive = FALSE /\ pageLocalGuesses = 0 /\ pageDone = FALSE
  /\ pageIsWordSetter = FALSE

Init == SessionInit /\ PureIdle /\ BoardIdle

(* ------------------------- identity provider --------------------------- *)
\* The anonymous session of a client is replaced (a session refresh): its
\* token changes while the module still holds the old mpPlayerId.
\* The token is read by mpSubmitSecretWord() only while a session lasts, so
\* the change is taken where that read can follow it.
AuthChange(c) ==
  /\ Calm
  /\ authChanges < MaxAuthChanges
  /\ authUid[c] = c
  /\ mpActive[c] /\ modal[c] = "word" /\ wordInput[c] /\ opc[c] = "idle"
  /\ authUid' = [authUid EXCEPT ![c] = AltUid(c)]
  /\ authChanges' = authChanges + 1
  /\ told' = Quiet
  /\ UNCHANGED <<storeVars, created, idVars, phaseVars, opVars, hVars, pendingCount>>
  /\ UNCHANGED <<acqVars, soloVars>>
  /\ Raise(c)

(* --------------------------- phase handlers ---------------------------- *)
\* Each handler is given S, the subscription registry left by the callback
\* that calls it, and sets every variable of phaseVars.

\* enterLobby() and listenLobby()
enterLobby(c, S) ==
  /\ mpActive' = [mpActive EXCEPT ![c] = TRUE]
  /\ modal' = [modal EXCEPT ![c] = "lobby"]
  /\ subs' = RegisterIn(S, c, {"lobbyPlayers", "lobbyMode", "lobbyStatus"})
  /\ UNCHANGED <<mpLocalGuesses, mpDone, mpIsWordSetter, boardTarget, currentRow,
                 gameOver, wordInput, relaySetter, startedRound>>

\* handleChoosingPhase(), with the party record its read returns
handleChoosingPhase(c, S) ==
  LET setter == mpPlayerId[c] = LiveSetter
  IN /\ mpIsWordSetter' = [mpIsWordSetter EXCEPT ![c] = setter]
     /\ IF ~setter /\ PlayerIds = {}
          THEN \* party.players is undefined: the label lookup throws
               /\ modal' = [modal EXCEPT ![c] = "none"]
               /\ subs' = S
               /\ UNCHANGED <<wordInput, relaySetter>>
          ELSE /\ wordInput' = [wordInput EXCEPT ![c] = setter]
               /\ modal' = [modal EXCEPT ![c] = "word"]
               /\ IF setter
                    THEN subs' = S /\ UNCHANGED relaySetter
                    ELSE IF mpIsHost[c]
                           THEN /\ subs' = RegisterIn(S, c, {"chooseStatus", "relay"})
                                /\ relaySetter' = [relaySetter EXCEPT ![c] = LiveSetter]
                           ELSE /\ subs' = RegisterIn(S, c, {"chooseStatus"})
                                /\ UNCHANGED relaySetter
     /\ UNCHANGED <<mpActive, mpLocalGuesses, mpDone, boardTarget, currentRow, gameOver,
                    startedRound>>

\* showMpWatchingOverlay(): the registry after the subscriptions it registers
\* (the earlier version of the function registered no completion check)
showMpWatchingOverlayEarlier(c, S) == RegisterIn(S, c, {"liveBoards", "watchStatus"})
showMpWatchingOverlay(c, S) ==
  RegisterIn(S, c, IF mpIsHost[c] THEN {"liveBoards", "watchPlayers", "watchStatus"}
                                  ELSE {"liveBoards", "watchStatus"})

\* startMpRound(), with the party record its read returns; startGame() closes
\* the dialogs and clears the board, listenForRoundEnd() registers the rest
startMpRound(c, S) ==
  /\ mpLocalGuesses' = [mpLocalGuesses EXCEPT ![c] = 0]
  /\ mpDone' = [mpDone EXCEPT ![c] = FALSE]
  /\ mpIsWordSetter' = [mpIsWordSetter EXCEPT ![c] = FALSE]
  /\ modal' = [modal EXCEPT ![c] = "none"]
  /\ currentRow' = [currentRow EXCEPT ![c] = 0]
  /\ gameOver' = [gameOver EXCEPT ![c] = FALSE]
  /\ boardTarget' = [boardTarget EXCEPT ![c] = targetWord]
  /\ subs' = RegisterIn(S, c, IF mpIsHost[c]
                                THEN {"liveBoards", "roundEndPlayers", "roundEndStatus"}
                                ELSE {"liveBoards", "roundEndStatus"})
  /\ startedRound' = [startedRound EXCEPT ![c] = round]
  /\ UNCHANGED <<mpActive, wordInput, relaySetter>>

\* showMpResults(), with the party record its read returns (in the variant
\* only the host's screen listens for the next phase: a guest registers nothing)
showMpResultsEarlier(c, S) ==
  /\ modal' = [modal EXCEPT ![c] = "results"]
  /\ subs' = IF mpIsHost[c] THEN RegisterIn(S, c, {"resultsStatus"}) ELSE S
  /\ UNCHANGED <<mpActive, mpLocalGuesses, mpDone, mpIsWordSetter, boardTarget,
                 currentRow, gameOver, wordInput, relaySetter, startedRound>>
showMpResults(c, S) ==
  /\ modal' = [modal EXCEPT ![c] = "results"]
  /\ subs' = RegisterIn(S, c, {"resultsStatus"})
  /\ UNCHANGED <<mpActive, mpLocalGuesses, mpDone, mpIsWordSetter, boardTarget,
                 currentRow, gameOver, wordInput, relaySetter, startedRound>>

\* cleanupMp(), and the dialogs leaveParty() closes after it
cleanupMp(c) ==
  /\ subs' = [subs EXCEPT ![c] = NoSubs]
  /\ mpActive' = [mpActive EXCEPT ![c] = FALSE]
  /\ mpPartyRef' = [mpPartyRef EXCEPT ![c] = FALSE]
  /\ mpLocalGuesses' = [mpLocalGuesses EXCEPT ![c] = 0]
  /\ mpDone' = [mpDone EXCEPT ![c] = FALSE]
  /\ mpIsHost' = [mpIsHost EXCEPT ![c] = FALSE]
  /\ mpIsWordSetter' = [mpIsWordSetter EXCEPT ![c] = FALSE]
  /\ modal' = [modal EXCEPT ![c] = "none"]

(* ------------------------------- lobby --------------------------------- *)
\* closeModal(id)
CloseModal(c, id) == [modal EXCEPT ![c] = IF @ = id THEN "none" ELSE @]

\* createParty(): set(partyData) replaces the whole record; on its
\* acknowledgment the client keeps the reference and enters the lobby.
CreateParty(c) ==
  /\ Calm
  /\ c = Creator /\ ~created
  /\ ~mpActive[c] /\ opc[c] = "idle" /\ modal[c] = "none"
  /\ created' = TRUE
  /\ mpPlayerId' = [mpPlayerId EXCEPT ![c] = authUid[c]]
  /\ mpIsHost' = [mpIsHost EXCEPT ![c] = TRUE]
  /\ host' = authUid[c]
  /\ status' = "lobby"
  /\ gameMode' = "classic"
  /\ round' = 0
  /\ targetWord' = <<>>
  /\ wordSetterIndex' = 0
  /\ wordQueue' = <<>>
  /\ players' = [id \in Ids |-> IF id = authUid[c] THEN mpPlayerObj ELSE NoPlayer]
  /\ mpPartyRef' = [mpPartyRef EXCEPT ![c] = TRUE]
  /\ enterLobby(c, subs)
  /\ told' = Quiet
  /\ UNCHANGED <<authVars, mpGameMode, opVars, hVars, pendingCount>>
  /\ UNCHANGED <<acqVars, soloVars>>
  /\ Raise(c)

\* joinParty() up to the read of the party record: the name and the code
\* typed are checked first; the party must exist and be in the lobby.
JoinRead(c, rawName, rawCode) ==
  /\ Calm
  /\ created
  /\ ~mpActive[c] /\ opc[c] = "idle" /\ modal[c] = "none"
  /\ LET name == sanitizePlayerName(trim(rawName))
         code == normalizeCode(rawCode)
     IN IF name = <<>>
          THEN told' = Toast(c, "enterName") /\ UNCHANGED <<mpPlayerId, mpIsHost, opc>>
        ELSE IF Len(code) # PARTY_CODE_LENGTH
          THEN told' = Toast(c, "validCode") /\ UNCHANGED <<mpPlayerId, mpIsHost, opc>>
        ELSE /\ mpPlayerId' = [mpPlayerId EXCEPT ![c] = authUid[c]]
             /\ mpIsHost' = [mpIsHost EXCEPT ![c] = FALSE]
             /\ IF code # PartyCode \/ ~PartyExists
                  THEN told' = Toast(c, "notFound") /\ UNCHANGED opc
                  ELSE IF status # "lobby"
                         THEN told' = Toast(c, "inProgress") /\ UNCHANGED opc
                         ELSE told' = Quiet /\ opc' = [opc EXCEPT ![c] = "joinWrite"]
  /\ UNCHANGED <<storeVars, created, authVars, mpGameMode, mpPartyRef, phaseVars,
                 opIds, opWord, hVars, pendingCount>>
  /\ UNCHANGED <<acqVars, soloVars>>
  /\ Raise(c)

\* joinParty(): set(mpPlayerObj) on players/{mpPlayerId}, then enterLobby()
JoinWrite(c) ==
  /\ Calm
  /\ opc[c] = "joinWrite"
  /\ players' = [players EXCEPT ![mpPlayerId[c]] = mpPlayerObj]
  /\ mpPartyRef' = [mpPartyRef EXCEPT ![c] = TRUE]
  /\ enterLobby(c, subs)
  /\ opc' = [opc EXCEPT ![c] = "idle"]
  /\ told' = Quiet
  /\ UNCHANGED <<host, status, gameMode, round, targetWord, wordSetterIndex, wordQueue,
                 created, authVars, mpPlayerId, mpIsHost, mpGameMode,
                 opIds, opWord, hVars, pendingCount>>
  /\ UNCHANGED <<acqVars, soloVars>>
  /\ Raise(c)

\* mpSelectMode(mode): the radio buttons sit in the host's lobby controls
mpSelectMode(c, mode) ==
  /\ Calm
  /\ modal[c] = "lobby"
  /\ mpGameMode' = [mpGameMode EXCEPT ![c] = mode]
  /\ gameMode' = IF mpPartyRef[c] /\ mpIsHost[c] THEN mode ELSE gameMode
  /\ told' = Quiet
  /\ UNCHANGED <<host, status, round, targetWord, wordSetterIndex, wordQueue, players,
                 created, authVars, mpPlayerId, mpIsHost, mpPartyRef, phaseVars, opVars,
                 hVars, pendingCount>>
  /\ UNCHANGED <<acqVars, soloVars>>
  /\ Raise(c)

\* listenLobby() fn2: the gameMode subscription copies the host's choice
LobbyModeCb(c) ==
  /\ Calm
  /\ subs[c]["lobbyMode"] > 0
  /\ gameMode # NIL /\ gameMode # mpGameMode[c]
  /\ mpGameMode' = [mpGameMode EXCEPT ![c] = gameMode]
  /\ told' = Quiet
  /\ UNCHANGED <<storeVars, created, authVars, mpPlayerId, mpIsHost, mpPartyRef,
                 phaseVars, opVars, hVars, pendingCount>>
  /\ UNCHANGED <<acqVars, soloVars>>
  /\ Raise(c)

\* value of round after ServerValue.increment(1)
Incremented == IF round = NoNum THEN 1 ELSE round + 1
RoundLeft == round = NoNum \/ round < roundCap

\* the multi-path update that resets the round fields of the players in ids;
\* doneFor is the id whose done and isWordSetter become true (NIL: nobody)
ResetPlayers(ids, doneFor, clearProposed) ==
  [id \in Ids |->
     IF id \in ids
       THEN [players[id] EXCEPT !.present = TRUE,
                                !.done = (id = doneFor),
                                !.won = FALSE,
                                !.guessCount = 0,
                                !.guesses = {},
                                !.isWordSetter = (id = doneFor),
                                !.proposedWord = IF clearProposed THEN NoWord ELSE @]
       ELSE players[id]]

\* every filling of the queue with ids, repeated ids included
Fillings(S) == [1..Cardinality(S) -> S]
Perms(S) == {q \in [1..Cardinality(S) -> S] : \A i, j \in 1..Cardinality(S) : i # j => q[i] # q[j]}

\* mpHostStart() up to the read of the player ids
StartRead(c) ==
  /\ Calm
  /\ modal[c] = "lobby" /\ opc[c] = "idle" /\ mpPartyRef[c]
  /\ RoundLeft
  /\ IF Cardinality(PlayerIds) < MIN_PLAYERS
       THEN told' = Toast(c, "needPlayers") /\ UNCHANGED <<opc, opIds>>
       ELSE /\ told' = Quiet
            /\ opIds' = [opIds EXCEPT ![c] = PlayerIds]
            /\ opc' = [opc EXCEPT ![c] = "startResets"]
  /\ UNCHANGED <<storeVars, created, authVars, idVars, phaseVars, opWord, hVars,
                 pendingCount>>
  /\ UNCHANGED <<acqVars, soloVars>>
  /\ Raise(c)

\* mpHostStart(): update(resets)
StartResets(c) ==
  /\ Calm
  /\ opc[c] = "startResets"
  /\ players' = ResetPlayers(opIds[c], NIL, FALSE)
  /\ opc' = [opc EXCEPT ![c] = "startStatus"]
  /\ told' = Quiet
  /\ UNCHANGED <<host, status, gameMode, round, targetWord, wordSetterIndex, wordQueue,
                 created, authVars, idVars, phaseVars, opIds, opWord, hVars,
                 pendingCount>>
  /\ UNCHANGED <<acqVars, soloVars>>
  /\ Raise(c)

\* mpHostStart(): the status write of the chosen mode
StartStatus(c) ==
  /\ Calm
  /\ opc[c] = "startStatus"
  /\ IF mpGameMode[c] = "classic"
       THEN /\ \E w \in ANSWERS : targetWord' = toUpperCase(w)
            /\ status' = "playing"
            /\ UNCHANGED <<wordQueue, wordSetterIndex>>
       ELSE /\ \E q \in Perms(opIds[c]) : wordQueue' = q
            /\ status' = "choosing"
            /\ wordSetterIndex' = 0
            /\ targetWord' = <<>>
  /\ round' = Incremented
  /\ opc' = [opc EXCEPT ![c] = "idle"]
  /\ opIds' = [opIds EXCEPT ![c] = {}]
  /\ told' = Quiet
  /\ UNCHANGED <<host, gameMode, players, created, authVars, idVars, phaseVars,
                 opWord, hVars, pendingCount>>
  /\ UNCHANGED <<acqVars, soloVars>>
  /\ Raise(c)

\* listenLobby() fn3: the status subscription of the lobby
LobbyStatusCb(c) ==
  /\ Due(c, "lobbyStatus")
  /\ subs[c]["lobbyStatus"] > 0
  /\ status \in {"choosing", "playing"}
  /\ IF status = "choosing"
       THEN handleChoosingPhase(c, Off(c, "lobbyStatus"))
       ELSE startMpRound(c, Off(c, "lobbyStatus"))
  /\ told' = Quiet
  /\ UNCHANGED <<storeVars, created, authVars, idVars, opVars, hVars, pendingCount>>
  /\ UNCHANGED <<acqVars, soloVars>>
  /\ Raise(c)

(* ------------------------------ choosing ------------------------------- *)
\* handleChoosingPhase(): the non-setter's status subscription
ChooseStatusCb(c) ==
  /\ Due(c, "chooseStatus")
  /\ subs[c]["chooseStatus"] > 0
  /\ status = "playing"
  /\ startMpRound(c, Off(c, "chooseStatus"))
  /\ told' = Quiet
  /\ UNCHANGED <<storeVars, created, authVars, idVars, opVars, hVars, pendingCount>>
  /\ UNCHANGED <<acqVars, soloVars>>
  /\ Raise(c)

\* the value of players/{relaySetter}/proposedWord the host's relay sees
RelaySees(c) == IF relaySetter[c] \in Ids THEN players[relaySetter[c]].proposedWord ELSE NoWord

\* handleChoosingPhase() relayFn: a well-formed proposal ends the subscription;
\* the player ids are those of the read that follows
RelayCb(c) ==
  /\ Due(c, "relay")
  /\ subs[c]["relay"] > 0 /\ hpc[c] = "none"
  /\ RelaySees(c) # NoWord /\ IsProposable(RelaySees(c))
  /\ subs' = Off(c, "relay")
  /\ hWord' = [hWord EXCEPT ![c] = RelaySees(c)]
  /\ hIds' = [hIds EXCEPT ![c] = PlayerIds]
  /\ hpc' = [hpc EXCEPT ![c] = "relayResets"]
  /\ told' = Quiet
  /\ UNCHANGED <<storeVars, created, authVars, idVars, mpActive, mpLocalGuesses, mpDone,
                 mpIsWordSetter, boardTarget, currentRow, gameOver, modal, wordInput,
                 relaySetter, startedRound, opVars, pendingCount>>
  /\ UNCHANGED <<acqVars, soloVars>>
  /\ Raise(c)

\* relayFn: update(resets); without a party reference the call throws
RelayResets(c) ==
  /\ Calm
  /\ hpc[c] = "relayResets"
  /\ told' = Quiet
  /\ IF mpPartyRef[c]
       THEN /\ players' = ResetPlayers(hIds[c], relaySetter[c], TRUE)
            /\ hpc' = [hpc EXCEPT ![c] = "relayStatus"]
            /\ UNCHANGED <<hIds, hWord>>
       ELSE /\ hpc' = [hpc EXCEPT ![c] = "none"]
            /\ hIds' = [hIds EXCEPT ![c] = {}]
            /\ hWord' = [hWord EXCEPT ![c] = NoWord]
            /\ UNCHANGED players
  /\ UNCHANGED <<host, status, gameMode, round, targetWord, wordSetterIndex, wordQueue,
                 created, authVars, idVars, phaseVars, opVars, pendingCount>>
  /\ UNCHANGED <<acqVars, soloVars>>
  /\ Raise(c)

\* relayFn: update({targetWord, status: 'playing'})
RelayStatus(c) ==
  /\ Calm
  /\ hpc[c] = "relayStatus"
  /\ hpc' = [hpc EXCEPT ![c] = "none"]
  /\ told' = Quiet
  /\ IF mpPartyRef[c]
       THEN /\ targetWord' = toUpperCase(hWord[c])
            /\ status' = "playing"
       ELSE UNCHANGED <<targetWord, status>>
  /\ hIds' = [hIds EXCEPT ![c] = {}]
  /\ hWord' = [hWord EXCEPT ![c] = NoWord]
  /\ UNCHANGED <<host, gameMode, round, wordSetterIndex, wordQueue, players,
                 created, authVars, idVars, phaseVars, opVars, pendingCount>>
  /\ UNCHANGED <<acqVars, soloVars>>
  /\ Raise(c)

\* The setter writes a value that is not a word of five letters into its own
\* proposedWord leaf, without the form of mpSubmitSecretWord().
RawPropose(c, w) ==
  /\ Calm
  /\ mpActive[c] /\ mpPartyRef[c] /\ ~mpIsHost[c]
  /\ modal[c] = "word" /\ wordInput[c] /\ opc[c] = "idle"
  /\ status = "choosing" /\ LiveSetter = mpPlayerId[c]
  /\ players[mpPlayerId[c]].proposedWord = NoWord
  /\ players' = [players EXCEPT ![mpPlayerId[c]].proposedWord = w,
                                ![mpPlayerId[c]].present = TRUE]
  /\ told' = Quiet
  /\ UNCHANGED <<host, status, gameMode, round, targetWord, wordSetterIndex, wordQueue,
                 created, authVars, idVars, phaseVars, opVars, hVars, pendingCount>>
  /\ UNCHANGED <<acqVars, soloVars>>
  /\ Raise(c)

\* mpSubmitSecretWord(): mpIsWordSetter after the re-check, made with the
\* identity token the client holds now against the setter the store names
IsLiveSetterCached(c) == mpPlayerId[c] = LiveSetter
IsLiveSetter(c) == authUid[c] = LiveSetter

\* mpSubmitSecretWord() up to the checks made before any write: the identity
\* re-check against the live setter, then the shape of the typed word w
SubmitCheck(c, w) ==
  /\ Calm
  /\ modal[c] = "word" /\ wordInput[c] /\ opc[c] = "idle"
  /\ mpPlayerId' = [mpPlayerId EXCEPT ![c] = authUid[c]]
  /\ LET word == toUpperCase(w)
         setter == IsLiveSetter(c)
     IN IF ~mpPartyRef[c]
          THEN /\ told' = Toast(c, "retry")
               /\ UNCHANGED <<mpIsWordSetter, opVars>>
          ELSE /\ mpIsWordSetter' = [mpIsWordSetter EXCEPT ![c] = setter]
               /\ IF ~setter
                    THEN /\ told' = Toast(c, IF mpPlayerId[c] # NIL /\ mpPlayerId[c] # authUid[c]
                                                /\ mpPlayerId[c] = LiveSetter
                                               THEN "rejoin" ELSE "waiting")
                         /\ UNCHANGED opVars
                    ELSE IF Len(word) # WORD_LENGTH \/ ~IsUpperAlpha(word)
                           THEN /\ told' = Toast(c, "badWord")
                                /\ UNCHANGED opVars
                           ELSE /\ told' = Quiet
                                /\ opWord' = [opWord EXCEPT ![c] = word]
                                /\ opIds' = [opIds EXCEPT ![c] = IF mpIsHost[c] THEN PlayerIds ELSE {}]
                                /\ opc' = [opc EXCEPT ![c] =
                                       IF mpIsHost[c] THEN "submitResets" ELSE "propose"]
  /\ UNCHANGED <<storeVars, created, authVars, mpIsHost, mpGameMode, mpPartyRef,
                 mpActive, subs, mpLocalGuesses, mpDone, boardTarget, currentRow, gameOver,
                 modal, wordInput, relaySetter, startedRound, hVars, pendingCount>>
  /\ UNCHANGED <<acqVars, soloVars>>
  /\ Raise(c)

\* mpSubmitSecretWord(), host branch: update(resets)
SubmitResets(c) ==
  /\ Calm
  /\ opc[c] = "submitResets"
  /\ players' = ResetPlayers(opIds[c], mpPlayerId[c], FALSE)
  /\ opc' = [opc EXCEPT ![c] = "submitStatus"]
  /\ told' = Quiet
  /\ UNCHANGED <<host, status, gameMode, round, targetWord, wordSetterIndex, wordQueue,
                 created, authVars, idVars, phaseVars, opIds, opWord, hVars,
                 pendingCount>>
  /\ UNCHANGED <<acqVars, soloVars>>
  /\ Raise(c)

\* mpSubmitSecretWord(), host branch: update({targetWord, status: 'playing'}),
\* then the host becomes the spectator of the round
SubmitStatus(c) ==
  /\ Calm
  /\ opc[c] = "submitStatus"
  /\ targetWord' = opWord[c]
  /\ status' = "playing"
  /\ modal' = CloseModal(c, "word")
  /\ mpDone' = [mpDone EXCEPT ![c] = TRUE]
  /\ subs' = showMpWatchingOverlay(c, subs)
  /\ opc' = [opc EXCEPT ![c] = "idle"]
  /\ opIds' = [opIds EXCEPT ![c] = {}]
  /\ opWord' = [opWord EXCEPT ![c] = NoWord]
  /\ told' = Quiet
  /\ UNCHANGED <<host, gameMode, round, wordSetterIndex, wordQueue, players,
                 created, authVars, idVars, mpActive, mpLocalGuesses, mpIsWordSetter,
                 boardTarget, currentRow, gameOver, wordInput, relaySetter, startedRound,
                 hVars, pendingCount>>
  /\ UNCHANGED <<acqVars, soloVars>>
  /\ Raise(c)

\* mpSubmitSecretWord(), non-host branch: set(word) on the own proposedWord
\* leaf, then the wait for the host's status write
Propose(c) ==
  /\ Calm
  /\ opc[c] = "propose"
  /\ players' = [players EXCEPT ![mpPlayerId[c]].proposedWord = opWord[c],
                                ![mpPlayerId[c]].present = TRUE]
  /\ wordInput' = [wordInput EXCEPT ![c] = FALSE]
  /\ mpDone' = [mpDone EXCEPT ![c] = TRUE]
  /\ subs' = Register(c, {"setterStatus"})
  /\ opc' = [opc EXCEPT ![c] = "idle"]
  /\ opIds' = [opIds EXCEPT ![c] = {}]
  /\ opWord' = [opWord EXCEPT ![c] = NoWord]
  /\ told' = Quiet
  /\ UNCHANGED <<host, status, gameMode, round, targetWord, wordSetterIndex, wordQueue,
                 created, authVars, idVars, mpActive, mpLocalGuesses, mpIsWordSetter,
                 boardTarget, currentRow, gameOver, modal, relaySetter, startedRound,
                 hVars, pendingCount>>
  /\ UNCHANGED <<acqVars, soloVars>>
  /\ Raise(c)

\* mpSubmitSecretWord(): the setter's status subscription
SetterStatusCb(c) ==
  /\ Due(c, "setterStatus")
  /\ subs[c]["setterStatus"] > 0
  /\ status = "playing"
  /\ modal' = CloseModal(c, "word")
  /\ subs' = showMpWatchingOverlay(c, Off(c, "setterStatus"))
  /\ told' = Quiet
  /\ UNCHANGED <<storeVars, created, authVars, idVars, mpActive, mpLocalGuesses, mpDone,
                 mpIsWordSetter, boardTarget, currentRow, gameOver, wordInput,
                 relaySetter, startedRound, opVars, hVars, pendingCount>>
  /\ UNCHANGED <<acqVars, soloVars>>
  /\ Raise(c)

(* ------------------------------- playing ------------------------------- *)
\* playersRef.off('value', fn) of a completion check, made before its write
playersRefOffMissing(c, k) == subs
playersRefOff(c, k) == Off(c, k)

\* the host's completion check of listenForRoundEnd() (k = roundEndPlayers)
\* and of showMpWatchingOverlay() (k = watchPlayers)
PlayersDoneCb(c, k) ==
  /\ Due(c, k)
  /\ subs[c][k] > 0
  /\ AllDone
  /\ subs' = playersRefOff(c, k)
  /\ status' = "results"
  /\ told' = Quiet
  /\ UNCHANGED <<host, gameMode, round, targetWord, wordSetterIndex, wordQueue, players,
                 created, authVars, idVars, mpActive, mpLocalGuesses, mpDone,
                 mpIsWordSetter, boardTarget, currentRow, gameOver, modal, wordInput,
                 relaySetter, startedRound, opVars, hVars, pendingCount>>
  /\ UNCHANGED <<acqVars, soloVars>>
  /\ Raise(c)

\* the status subscription of listenForRoundEnd() (k = roundEndStatus) and of
\* showMpWatchingOverlay() (k = watchStatus)
StatusResultsCb(c, k) ==
  /\ Due(c, k)
  /\ subs[c][k] > 0
  /\ status = "results"
  /\ showMpResults(c, Off(c, k))
  /\ told' = Quiet
  /\ UNCHANGED <<storeVars, created, authVars, idVars, opVars, hVars, pendingCount>>
  /\ UNCHANGED <<acqVars, soloVars>>
  /\ Raise(c)

(* ------------------------------- results ------------------------------- *)
\* showMpResults() nextRoundFn: the status subscription of the results screen
ResultsStatusCb(c) ==
  /\ Due(c, "resultsStatus")
  /\ subs[c]["resultsStatus"] > 0
  /\ status \in {"playing", "choosing", "lobby"}
  /\ IF status = "playing" THEN startMpRound(c, Off(c, "resultsStatus"))
     ELSE IF status = "choosing" THEN handleChoosingPhase(c, Off(c, "resultsStatus"))
     ELSE enterLobby(c, Off(c, "resultsStatus"))
  /\ told' = Quiet
  /\ UNCHANGED <<storeVars, created, authVars, idVars, opVars, hVars, pendingCount>>
  /\ UNCHANGED <<acqVars, soloVars>>
  /\ Raise(c)

\* mpPlayAgain() up to the read of the player ids
PlayAgainRead(c) ==
  /\ Calm
  /\ modal[c] = "results" /\ opc[c] = "idle" /\ mpPartyRef[c]
  /\ RoundLeft
  /\ opIds' = [opIds EXCEPT ![c] = PlayerIds]
  /\ opc' = [opc EXCEPT ![c] = "playAgainResets"]
  /\ told' = Quiet
  /\ UNCHANGED <<storeVars, created, authVars, idVars, phaseVars, opWord, hVars,
                 pendingCount>>
  /\ UNCHANGED <<acqVars, soloVars>>
  /\ Raise(c)

\* mpPlayAgain(): update(resets)
PlayAgainResets(c) ==
  /\ Calm
  /\ opc[c] = "playAgainResets"
  /\ players' = ResetPlayers(opIds[c], NIL, FALSE)
  /\ opc' = [opc EXCEPT ![c] = "playAgainStatus"]
  /\ told' = Quiet
  /\ UNCHANGED <<host, status, gameMode, round, targetWord, wordSetterIndex, wordQueue,
                 created, authVars, idVars, phaseVars, opIds, opWord, hVars,
                 pendingCount>>
  /\ UNCHANGED <<acqVars, soloVars>>
  /\ Raise(c)

\* the setter index left as it is raised, without the wrap at the queue length
nextIdxUnwrapped(idx, queueLen) == idx + 1
\* ((party.wordSetterIndex || 0) + 1) % queueLen
nextIdx(idx, queueLen) == (idx + 1) % queueLen

\* mpPlayAgain(): the status write of the mode; in custom mode the setter index
\* read from the party advances modulo the queue length (an empty queue makes
\* the index NaN, which the store refuses)
PlayAgainStatus(c) ==
  /\ Calm
  /\ opc[c] = "playAgainStatus"
  /\ opc' = [opc EXCEPT ![c] = "idle"]
  /\ opIds' = [opIds EXCEPT ![c] = {}]
  /\ told' = Quiet
  /\ IF mpGameMode[c] = "classic"
       THEN /\ \E w \in ANSWERS : targetWord' = toUpperCase(w)
            /\ status' = "playing"
            /\ round' = Incremented
            /\ UNCHANGED wordSetterIndex
       ELSE IF Len(wordQueue) = 0
              THEN UNCHANGED <<targetWord, status, round, wordSetterIndex>>
              ELSE /\ wordSetterIndex' =
                        nextIdx(IF wordSetterIndex = NoNum THEN 0 ELSE wordSetterIndex,
                                Len(wordQueue))
                   /\ status' = "choosing"
                   /\ targetWord' = <<>>
                   /\ round' = Incremented
  /\ UNCHANGED <<host, gameMode, wordQueue, players, created, authVars, idVars,
                 phaseVars, opWord, hVars, pendingCount>>
  /\ UNCHANGED <<acqVars, soloVars>>
  /\ Raise(c)

\* mpReturnToLobby(): update({status: 'lobby', targetWord: '', wordQueue: {}})
mpReturnToLobbyKeepsWord(c) ==
  /\ Calm
  /\ modal[c] = "results" /\ opc[c] = "idle" /\ mpPartyRef[c]
  /\ status' = "lobby"
  /\ wordQueue' = <<>>
  /\ told' = Quiet
  /\ UNCHANGED <<host, gameMode, round, wordSetterIndex, players, created, authVars,
                 idVars, phaseVars, opVars, hVars, pendingCount, targetWord>>
  /\ UNCHANGED <<acqVars, soloVars>>
  /\ Raise(c)
mpReturnToLobby(c) ==
  /\ Calm
  /\ modal[c] = "results" /\ opc[c] = "idle" /\ mpPartyRef[c]
  /\ status' = "lobby"
  /\ targetWord' = <<>>
  /\ wordQueue' = <<>>
  /\ told' = Quiet
  /\ UNCHANGED <<host, gameMode, round, wordSetterIndex, players, created, authVars,
                 idVars, phaseVars, opVars, hVars, pendingCount>>
  /\ UNCHANGED <<acqVars, soloVars>>
  /\ Raise(c)

(* -------------------------------- leave -------------------------------- *)
\* the rejection of an awaited store call of client c, which nothing catches
Rejected(c) == [by |-> c, msg |-> "leaveRejected"]

\* ref.child(`players/${id}`).remove()
RemoveEveryPlayer(id) == [i \in Ids |-> NoPlayer]
RemovePlayer(id) == [players EXCEPT ![id] = NoPlayer]

\* leaveParty(): the host removes the party record, any other client removes
\* players/{mpPlayerId}; then cleanupMp()
LeaveParty(c) ==
  /\ Calm
  /\ modal[c] \in {"lobby", "results"} /\ opc[c] = "idle"
  /\ mpPartyRef[c]
  /\ IF mpIsHost[c]
       THEN /\ host' = NIL /\ status' = NIL /\ gameMode' = NIL /\ round' = NoNum
            /\ targetWord' = NoWord /\ wordSetterIndex' = NoNum /\ wordQueue' = <<>>
            /\ players' = [id \in Ids |-> NoPlayer]
       ELSE /\ players' = RemovePlayer(mpPlayerId[c])
            /\ UNCHANGED <<host, status, gameMode, round, targetWord, wordSetterIndex,
                           wordQueue>>
  /\ cleanupMp(c)
  /\ told' = Toast(c, "left")
  /\ UNCHANGED <<created, authVars, mpPlayerId, mpGameMode, boardTarget, currentRow,
                 gameOver, wordInput, relaySetter, startedRound, opVars, hVars, pendingCount>>
  /\ UNCHANGED <<acqVars, soloVars>>
  /\ Raise(c)

\* leaveParty(): the store rejects the remove; the awaited call throws and
\* nothing after it runs
LeaveFail(c) ==
  /\ Calm
  /\ modal[c] \in {"lobby", "results"} /\ opc[c] = "idle"
  /\ mpPartyRef[c]
  /\ told' = Rejected(c)
  /\ UNCHANGED <<storeVars, created, authVars, idVars, phaseVars, opVars, hVars,
                 pendingCount>>
  /\ UNCHANGED <<acqVars, soloVars>>
  /\ Raise(c)

(* -------------------------------- board -------------------------------- *)
\* handleKey() passes keys to the board while the game is not over; keys
\* pressed while a party dialog is open are not part of this specification
BoardOpen(c) == mpActive[c] /\ modal[c] = "none" /\ ~gameOver[c]

\* mpSyncTyping() writes the typing leaf under these conditions
SyncsTyping(c) == mpActive[c] /\ ~mpDone[c] /\ ~mpIsWordSetter[c] /\ mpPartyRef[c]

\* a write of client c to a leaf of its own player record
Touched(c) == IF mpPlayerId[c] \in Ids
                THEN [players EXCEPT ![mpPlayerId[c]].present = TRUE]
                ELSE players

\* addLetter() and deleteLetter(): mpSyncTyping() sets the typing leaf
addLetter(c) ==
  /\ Calm
  /\ BoardOpen(c)
  /\ players' = IF SyncsTyping(c) THEN Touched(c) ELSE players
  /\ told' = Quiet
  /\ UNCHANGED <<host, status, gameMode, round, targetWord, wordSetterIndex, wordQueue,
                 created, authVars, idVars, phaseVars, opVars, hVars, pendingCount>>
  /\ UNCHANGED <<acqVars, soloVars>>
  /\ Raise(c)

\* mpRecordGuess() and mpMarkDone() write under these conditions
Records(c) == mpActive[c] /\ ~mpDone[c] /\ ~mpIsWordSetter[c]

\* the player record after mpClearTyping(), the first write of mpRecordGuess()
\* for row and, when the round of the player ends, the update of mpMarkDone()
AfterGuess(c, p, scored, row, ends, won) ==
  LET p1 == IF mpActive[c] /\ mpPartyRef[c] THEN [p EXCEPT !.present = TRUE] ELSE p
      p2 == IF scored /\ Records(c) /\ mpPartyRef[c]
              THEN [p1 EXCEPT !.guesses = @ \cup {row}, !.present = TRUE] ELSE p1
  IN IF scored /\ Records(c) /\ ends /\ mpPartyRef[c]
       THEN [p2 EXCEPT !.done = TRUE, !.won = won, !.present = TRUE,
                       !.guessCount = mpLocalGuesses[c] + 1]
       ELSE p2

\* submitGuess() with the typed row g (currentCol is its length), and the
\* callback of revealRow(); a row that is not full is refused before anything
\* else, mpClearTyping() runs before the word is looked up
SubmitGuess(c, g) ==
  /\ Calm
  /\ BoardOpen(c)
  /\ LET full == Len(g) >= WORD_LENGTH
         scored == full /\ isValidWord(g) /\ boardTarget[c] # NoWord
         won == \A i \in Positions : evaluateGuess(g, boardTarget[c])[i] = "correct"
         ends == won \/ currentRow[c] + 1 >= MaxRows
         me == mpPlayerId[c]
     IN /\ players' = IF full /\ me \in Ids
                        THEN [players EXCEPT ![me] = AfterGuess(c, @, scored, currentRow[c], ends, won)]
                        ELSE players
        /\ told' = IF ~full THEN Toast(c, "notEnough")
                   ELSE IF isValidWord(g) THEN Quiet ELSE Toast(c, "notInList")
        /\ IF scored
             THEN /\ currentRow' = [currentRow EXCEPT ![c] = @ + 1]
                  /\ gameOver' = [gameOver EXCEPT ![c] = ends]
                  /\ IF Records(c)
                       THEN /\ mpLocalGuesses' = [mpLocalGuesses EXCEPT ![c] = @ + 1]
                            /\ pendingCount' = [pendingCount EXCEPT ![c] =
                                                  IF mpPartyRef[c] THEN @ + 1 ELSE @]
                            /\ mpDone' = [mpDone EXCEPT ![c] = ends]
                       ELSE UNCHANGED <<mpLocalGuesses, pendingCount, mpDone>>
             ELSE UNCHANGED <<currentRow, gameOver, mpLocalGuesses, pendingCount, mpDone>>
  /\ UNCHANGED <<host, status, gameMode, round, targetWord, wordSetterIndex, wordQueue,
                 created, authVars, idVars, mpActive, subs, mpIsWordSetter, boardTarget,
                 modal, wordInput, relaySetter, startedRound, opVars, hVars>>
  /\ UNCHANGED <<acqVars, soloVars>>
  /\ Raise(c)

\* the rejection of the writes of mpRecordGuess() and mpMarkDone(), which
\* nothing catches
WriteRejected(c) == [by |-> c, msg |-> "writeRejected"]

\* submitGuess() with a row that is scored, when the store rejects the writes
\* of the client: mpClearTyping() swallows the rejection; mpRecordGuess() has
\* pushed the guess and throws at its first set(); mpMarkDone() has set mpDone
\* and throws at its update(), before the toast
SubmitGuessDenied(c, g) ==
  /\ Calm
  /\ BoardOpen(c)
  /\ Records(c) /\ mpPartyRef[c] /\ mpPlayerId[c] \in Ids
  /\ Len(g) >= WORD_LENGTH /\ isValidWord(g) /\ boardTarget[c] # NoWord
  /\ LET won == \A i \in Positions : evaluateGuess(g, boardTarget[c])[i] = "correct"
         ends == won \/ currentRow[c] + 1 >= MaxRows
     IN /\ currentRow' = [currentRow EXCEPT ![c] = @ + 1]
        /\ gameOver' = [gameOver EXCEPT ![c] = ends]
        /\ mpLocalGuesses' = [mpLocalGuesses EXCEPT ![c] = @ + 1]
        /\ mpDone' = [mpDone EXCEPT ![c] = ends]
  /\ told' = WriteRejected(c)
  /\ UNCHANGED <<storeVars, created, authVars, idVars, mpActive, subs, mpIsWordSetter,
                 boardTarget, modal, wordInput, relaySetter, startedRound, opVars, hVars,
                 pendingCount>>
  /\ UNCHANGED <<acqVars, soloVars>>
  /\ Raise(c)

\* mpRecordGuess() after its first write: set(mpLocalGuesses.length) on guessCount
RecordGuessCount(c) ==
  /\ Calm
  /\ pendingCount[c] > 0
  /\ pendingCount' = [pendingCount EXCEPT ![c] = @ - 1]
  /\ players' = IF mpPartyRef[c] /\ mpPlayerId[c] \in Ids
                  THEN [players EXCEPT ![mpPlayerId[c]].guessCount = mpLocalGuesses[c],
                                       ![mpPlayerId[c]].present = TRUE]
                  ELSE players
  /\ told' = Quiet
  /\ UNCHANGED <<host, status, gameMode, round, targetWord, wordSetterIndex, wordQueue,
                 created, authVars, idVars, phaseVars, opVars, hVars>>
  /\ UNCHANGED <<acqVars, soloVars>>
  /\ Raise(c)

(* ----------------------------- next state ------------------------------ *)
\* the steps of client c; the controls of the host are shown by enterLobby()
\* and showMpResults() to the client whose mpIsHost is set
Act(c) ==
  \/ AuthChange(c)
  \/ CreateParty(c)
  \/ \E n \in NameInputs, k \in CodeInputs : JoinRead(c, n, k)
  \/ JoinWrite(c)
  \/ \E mode \in {"classic", "custom"} : mpIsHost[c] /\ mpSelectMode(c, mode)
  \/ LobbyModeCb(c)
  \/ mpIsHost[c] /\ StartRead(c)
  \/ StartResets(c)
  \/ StartStatus(c)
  \/ LobbyStatusCb(c)
  \/ ChooseStatusCb(c)
  \/ RelayCb(c)
  \/ RelayResets(c)
  \/ RelayStatus(c)
  \/ \E w \in RawProposals : RawPropose(c, w)
  \/ \E w \in SecretInputs : SubmitCheck(c, w)
  \/ SubmitResets(c)
  \/ SubmitStatus(c)
  \/ Propose(c)
  \/ SetterStatusCb(c)
  \/ \E k \in {"roundEndPlayers", "watchPlayers"} : PlayersDoneCb(c, k)
  \/ \E k \in {"roundEndStatus", "watchStatus"} : StatusResultsCb(c, k)
  \/ ResultsStatusCb(c)
  \/ mpIsHost[c] /\ PlayAgainRead(c)
  \/ PlayAgainResets(c)
  \/ PlayAgainStatus(c)
  \/ mpIsHost[c] /\ mpReturnToLobby(c)
  \/ LeaveParty(c)
  \/ LeaveFail(c)
  \/ addLetter(c)
  \/ \E g \in GuessInputs : SubmitGuess(c, g)
  \/ \E g \in GuessInputs : SubmitGuessDenied(c, g)
  \/ RecordGuessCount(c)

Next == \E c \in Clients : Act(c)

Spec == Init /\ [][Next]_vars

(* ------------------------------ fairness ------------------------------- *)
\* what the event loop of client c runs without its user: the delivery of a
\* subscription callback, and the step that follows an awaited store call
Deliver(c) ==
  \/ LobbyStatusCb(c)
  \/ ChooseStatusCb(c)
  \/ SetterStatusCb(c)
  \/ ResultsStatusCb(c)
  \/ \E k \in {"roundEndPlayers", "watchPlayers"} : PlayersDoneCb(c, k)
  \/ \E k \in {"roundEndStatus", "watchStatus"} : StatusResultsCb(c, k)
  \/ RelayCb(c) \/ RelayResets(c) \/ RelayStatus(c)
  \/ JoinWrite(c)
  \/ StartResets(c) \/ StartStatus(c)
  \/ SubmitResets(c) \/ SubmitStatus(c) \/ Propose(c)
  \/ PlayAgainResets(c) \/ PlayAgainStatus(c)
  \/ RecordGuessCount(c)

\* a connected client's event loop does not stop
FairSpec == Spec /\ \A c \in Clients : WF_vars(Deliver(c))

(* ------------------- operations called without the UI ------------------ *)
\* mpHostStart(), mpPlayAgain() and mpReturnToLobby() are functions of the
\* page: a client whose host controls are hidden can still call them.  In this
\* specification the party stays in classic mode, the host leaves its own
\* controls alone and a guest calls the three functions.
CallsHostOperation(c) ==
  /\ ~mpIsHost[c]
  /\ (StartRead(c) \/ PlayAgainRead(c) \/ mpReturnToLobby(c))

OpenAct(c) ==
  \/ CreateParty(c)
  \/ \E n \in NameInputs, k \in CodeInputs : JoinRead(c, n, k)
  \/ JoinWrite(c)
  \/ CallsHostOperation(c)
  \/ StartResets(c)
  \/ StartStatus(c)
  \/ LobbyStatusCb(c)
  \/ \E k \in {"roundEndPlayers", "watchPlayers"} : PlayersDoneCb(c, k)
  \/ \E k \in {"roundEndStatus", "watchStatus"} : StatusResultsCb(c, k)
  \/ ResultsStatusCb(c)
  \/ PlayAgainResets(c)
  \/ PlayAgainStatus(c)
  \/ LeaveParty(c)
  \/ \E g \in GuessInputs : SubmitGuess(c, g)
  \/ RecordGuessCount(c)

NextOpen == \E c \in Clients : OpenAct(c)

OpenSpec == Init /\ [][NextOpen]_vars

(* --------------------------- setter rotation --------------------------- *)
\* A party whose players stay: nobody leaves, no identity changes and the
\* host does not return to the lobby.  The party may start MaxRotation
\* rounds, one more than a word queue of two players is long.
RotateInit == FreshSession /\ PureIdle /\ BoardIdle /\ roundCap = MaxRotation

RotateAct(c) ==
  \/ CreateParty(c)
  \/ \E n \in NameInputs, k \in CodeInputs : JoinRead(c, n, k)
  \/ JoinWrite(c)
  \/ \E mode \in {"classic", "custom"} : mpIsHost[c] /\ mpSelectMode(c, mode)
  \/ LobbyModeCb(c)
  \/ mpIsHost[c] /\ StartRead(c)
  \/ StartResets(c)
  \/ StartStatus(c)
  \/ LobbyStatusCb(c)
  \/ ChooseStatusCb(c)
  \/ RelayCb(c)
  \/ RelayResets(c)
  \/ RelayStatus(c)
  \/ \E w \in SecretInputs : SubmitCheck(c, w)
  \/ SubmitResets(c)
  \/ SubmitStatus(c)
  \/ Propose(c)
  \/ SetterStatusCb(c)
  \/ \E k \in {"roundEndPlayers", "watchPlayers"} : PlayersDoneCb(c, k)
  \/ \E k \in {"roundEndStatus", "watchStatus"} : StatusResultsCb(c, k)
  \/ ResultsStatusCb(c)
  \/ mpIsHost[c] /\ PlayAgainRead(c)
  \/ PlayAgainResets(c)
  \/ PlayAgainStatus(c)
  \/ \E g \in GuessInputs : SubmitGuess(c, g)
  \/ RecordGuessCount(c)

RotateNext == \E c \in Clients : RotateAct(c)

RotateSpec == RotateInit /\ [][RotateNext]_vars

(* ------------------------- a control pressed twice --------------------- *)
\* The click handlers of #mp-lobby-start and #mp-play-again-btn call
\* mpHostStart() and mpPlayAgain() on every click: a second click while the
\* first call is suspended starts a second call.  In this specification the
\* party stays in classic mode and nobody leaves; the position and the ids of
\* the second call are kept in hpc and hIds, which the relay does not use in
\* classic mode.  The requests of one client reach the store in the order in
\* which they were issued, so each write of the second call follows the
\* matching write of the first.

\* the second click, up to the read of the player ids
PressAgain(c) ==
  /\ Calm
  /\ mpIsHost[c] /\ mpPartyRef[c] /\ mpGameMode[c] = "classic"
  /\ hpc[c] = "none"
  /\ \/ modal[c] = "lobby" /\ opc[c] \in {"startResets", "startStatus"}
     \/ modal[c] = "results" /\ opc[c] \in {"playAgainResets", "playAgainStatus"}
  /\ round + 1 < roundCap
  /\ IF modal[c] = "lobby" /\ Cardinality(PlayerIds) < MIN_PLAYERS
       THEN told' = Toast(c, "needPlayers") /\ UNCHANGED <<hpc, hIds>>
       ELSE /\ told' = Quiet
            /\ hIds' = [hIds EXCEPT ![c] = PlayerIds]
            /\ hpc' = [hpc EXCEPT ![c] = "againResets"]
  /\ UNCHANGED <<storeVars, created, authVars, idVars, phaseVars, opVars, hWord,
                 pendingCount>>
  /\ UNCHANGED <<acqVars, soloVars>>
  /\ Raise(c)

\* the second call: update(resets)
AgainResets(c) ==
  /\ Calm
  /\ hpc[c] = "againResets" /\ opc[c] \notin {"startResets", "playAgainResets"}
  /\ players' = ResetPlayers(hIds[c], NIL, FALSE)
  /\ hpc' = [hpc EXCEPT ![c] = "againStatus"]
  /\ told' = Quiet
  /\ UNCHANGED <<host, status, gameMode, round, targetWord, wordSetterIndex, wordQueue,
                 created, authVars, idVars, phaseVars, opVars, hIds, hWord,
                 pendingCount>>
  /\ UNCHANGED <<acqVars, soloVars>>
  /\ Raise(c)

\* the second call: update({status: 'playing', targetWord: word, round: increment(1)})
AgainStatus(c) ==
  /\ Calm
  /\ hpc[c] = "againStatus" /\ opc[c] = "idle"
  /\ \E w \in ANSWERS : targetWord' = toUpperCase(w)
  /\ status' = "playing"
  /\ round' = Incremented
  /\ hpc' = [hpc EXCEPT ![c] = "none"]
  /\ hIds' = [hIds EXCEPT ![c] = {}]
  /\ told' = Quiet
  /\ UNCHANGED <<host, gameMode, wordSetterIndex, wordQueue, players, created,
                 authVars, idVars, phaseVars, opVars, hWord, pendingCount>>
  /\ UNCHANGED <<acqVars, soloVars>>
  /\ Raise(c)

AgainInit == FreshSession /\ PureIdle /\ BoardIdle /\ roundCap = MaxRotation

AgainAct(c) ==
  \/ CreateParty(c)
  \/ \E n \in NameInputs, k \in CodeInputs : JoinRead(c, n, k)
  \/ JoinWrite(c)
  \/ mpIsHost[c] /\ StartRead(c)
  \/ StartResets(c)
  \/ StartStatus(c)
  \/ LobbyStatusCb(c)
  \/ \E k \in {"roundEndPlayers", "watchPlayers"} : PlayersDoneCb(c, k)
  \/ \E k \in {"roundEndStatus", "watchStatus"} : StatusResultsCb(c, k)
  \/ ResultsStatusCb(c)
  \/ mpIsHost[c] /\ PlayAgainRead(c)
  \/ PlayAgainResets(c)
  \/ PlayAgainStatus(c)
  \/ PressAgain(c)
  \/ AgainResets(c)
  \/ AgainStatus(c)
  \/ \E g \in GuessInputs : SubmitGuess(c, g)
  \/ RecordGuessCount(c)

AgainNext == \E c \in Clients : AgainAct(c)

AgainSpec == AgainInit /\ [][AgainNext]_vars

(* ----------------------- keys under an open dialog --------------------- *)
\* handleKey() does not drop a game key that is pressed while a dialog is
\* open: it closes every open dialog and lets the key through.  The keydown
\* listener ignores the keys typed into a text input, so the dialog that
\* shows the secret-word input to the setter is left out.  In this
\* specification the party stays in classic mode and nobody leaves.

\* handleKey(letter) with a party dialog open: the dialogs close, addLetter()
\* takes the letter and mpSyncTyping() sets the typing leaf
KeyClosesDialog(c) ==
  /\ Calm
  /\ mpActive[c] /\ ~gameOver[c]
  /\ modal[c] \in {"lobby", "results"} \/ (modal[c] = "word" /\ ~wordInput[c])
  /\ modal' = [modal EXCEPT ![c] = "none"]
  /\ players' = IF SyncsTyping(c) THEN Touched(c) ELSE players
  /\ told' = Quiet
  /\ UNCHANGED <<host, status, gameMode, round, targetWord, wordSetterIndex, wordQueue,
                 created, authVars, idVars, mpActive, subs, mpLocalGuesses, mpDone,
                 mpIsWordSetter, boardTarget, currentRow, gameOver, wordInput,
                 relaySetter, startedRound, opVars, hVars, pendingCount>>
  /\ UNCHANGED <<acqVars, soloVars>>
  /\ Raise(c)

KeyAct(c) ==
  \/ CreateParty(c)
  \/ \E n \in NameInputs, k \in CodeInputs : JoinRead(c, n, k)
  \/ JoinWrite(c)
  \/ mpIsHost[c] /\ StartRead(c)
  \/ StartResets(c)
  \/ StartStatus(c)
  \/ LobbyStatusCb(c)
  \/ \E k \in {"roundEndPlayers", "watchPlayers"} : PlayersDoneCb(c, k)
  \/ \E k \in {"roundEndStatus", "watchStatus"} : StatusResultsCb(c, k)
  \/ ResultsStatusCb(c)
  \/ mpIsHost[c] /\ PlayAgainRead(c)
  \/ PlayAgainResets(c)
  \/ PlayAgainStatus(c)
  \/ mpIsHost[c] /\ mpReturnToLobby(c)
  \/ KeyClosesDialog(c)
  \/ \E g \in GuessInputs : SubmitGuess(c, g)
  \/ RecordGuessCount(c)

KeyNext == \E c \in Clients : KeyAct(c)

KeySpec == Init /\ [][KeyNext]_vars

(* ------------------------ identity acquisition ------------------------- *)
\* ensureFirebaseReady() of one page, before it is in a party.  The page is
\* configured (initFirebase() returns true) and a user that has signed in
\* stays signed in.

\* the calls that await the cached acquisition resume with its outcome
Resume(outcome) == [k \in Callers |-> IF cpc[k] = "awaiting" THEN outcome ELSE cpc[k]]

\* the acquisition returns: the calls that await it return true
Fulfil ==
  /\ mpAuthReadyPromise' = "fulfilled"
  /\ apc' = "none"
  /\ cpc' = Resume("true")
  /\ UNCHANGED <<mpLastAuthErrorMessage, attempt, signIns>>

\* the acquisition throws err: its catch() clears the cache, then every call
\* that awaits it sets the message and returns false
Fail(err) ==
  /\ mpAuthReadyPromise' = "null"
  /\ apc' = "none"
  /\ cpc' = Resume("false")
  /\ mpLastAuthErrorMessage' = MessageOf(err)
  /\ UNCHANGED <<attempt, signIns>>

\* ensureFirebaseReady() up to its first await
Call(k) ==
  /\ cpc[k] # "awaiting"
  /\ mpLastAuthErrorMessage' = ""
  /\ IF currentUser
       THEN /\ cpc' = [cpc EXCEPT ![k] = "true"]
            /\ UNCHANGED <<mpAuthReadyPromise, apc, attempt, lastErr, signIns>>
       ELSE IF mpAuthReadyPromise = "null"
         THEN \* the acquisition starts and calls signInAnonymously()
              /\ mpAuthReadyPromise' = "pending"
              /\ apc' = "signIn" /\ attempt' = 1 /\ lastErr' = "" /\ signIns' = 1
              /\ cpc' = [cpc EXCEPT ![k] = "awaiting"]
         ELSE /\ cpc' = [cpc EXCEPT ![k] = "awaiting"]
              /\ UNCHANGED <<mpAuthReadyPromise, apc, attempt, lastErr, signIns>>
  /\ UNCHANGED <<currentUser, lateSignIn, partyVars, soloVars>>

\* signInAnonymously() resolves, with the user set or not yet set;
\* waitForCurrentUser() resolves at once when the user is set
SignInResolves(userSet) ==
  /\ apc = "signIn"
  /\ currentUser' = (currentUser \/ userSet)
  /\ IF currentUser'
       THEN Fulfil
       ELSE /\ apc' = "waitUser"
            /\ UNCHANGED <<mpAuthReadyPromise, mpLastAuthErrorMessage, attempt, cpc, signIns>>
  /\ UNCHANGED <<lastErr, lateSignIn, partyVars, soloVars>>

\* onAuthStateChanged delivers a user: the user of the sign-in that has
\* resolved, or the user of a sign-in call that was abandoned by its timeout
AuthStateChanged ==
  /\ apc = "waitUser" \/ lateSignIn
  /\ currentUser' = TRUE
  /\ lateSignIn' = FALSE
  /\ IF apc = "waitUser"
       THEN Fulfil
       ELSE UNCHANGED <<mpAuthReadyPromise, mpLastAuthErrorMessage, apc, attempt, cpc, signIns>>
  /\ UNCHANGED <<lastErr, partyVars, soloVars>>

\* an attempt fails with err: the catch block of the loop
AttemptFails(err) ==
  /\ \/ apc = "signIn" /\ err \in SignInErrors
     \/ apc = "waitUser" /\ err \in WaitErrors
  /\ lastErr' = err
  /\ lateSignIn' = (lateSignIn \/ err = "signInTimedOut")
  /\ IF IsNotAllowed(err)
       THEN Fail("signInDisabled")
       ELSE IF HasTriesLeft(attempt)
              THEN /\ apc' = "backoff"
                   /\ UNCHANGED <<mpAuthReadyPromise, mpLastAuthErrorMessage, attempt, cpc,
                                  signIns>>
              ELSE Fail(err)
  /\ UNCHANGED <<currentUser, partyVars, soloVars>>

\* the back-off timer fires: the next attempt calls signInAnonymously()
BackoffEnds ==
  /\ apc = "backoff"
  /\ attempt' = attempt + 1
  /\ signIns' = signIns + 1
  /\ apc' = "signIn"
  /\ UNCHANGED <<currentUser, mpAuthReadyPromise, mpLastAuthErrorMessage, lastErr,
                 lateSignIn, cpc, partyVars, soloVars>>

\* what ends an await of the acquisition: the provider's answer or a timer
AcqStep ==
  \/ \E userSet \in BOOLEAN : SignInResolves(userSet)
  \/ AuthStateChanged
  \/ \E err \in SignInErrors \cup WaitErrors : AttemptFails(err)
  \/ BackoffEnds

AuthNext ==
  \/ \E k \in Callers : Call(k)
  \/ AcqStep

AuthSpec == Init /\ [][AuthNext]_vars

\* every await of the acquisition races a timer (withTimeout, the timer of
\* waitForCurrentUser, the back-off), and timers fire
AuthFairSpec == AuthSpec /\ WF_vars(AcqStep)

(* ============================ properties =============================== *)
\* a client that is the host of the party and still holds its reference
HostConnected == \E c \in Clients : mpIsHost[c] /\ mpPartyRef[c]
\* every record of the players map has done = true
EveryRecordDone == \A id \in Ids : players[id].present => players[id].done
\* the host runs a completion check that writes status = results
HostWritesResults ==
  \E c \in Clients : mpIsHost[c] /\ \E k \in {"roundEndPlayers", "watchPlayers"} : PlayersDoneCb(c, k)

\* C1: the status changes from playing to results only in a step of the host
\* taken when every record of the players map has done = true; when a round
\* starts out of choosing the designated setter's record (when the setter is
\* still a player of the party) has done = true and is marked as the
\* setter's, and a setter's record stays done while the round is played.
C1_RoundBarrier ==
  [][ /\ (status = "playing" /\ status' = "results") => (EveryRecordDone /\ HostWritesResults)
      /\ (status = "choosing" /\ status' = "playing") =>
            (LiveSetter \in Ids /\ players'[LiveSetter].present =>
               players'[LiveSetter].done /\ players'[LiveSetter].isWordSetter)
      /\ (status' = "playing") => \A id \in Ids : players'[id].isWordSetter => players'[id].done
    ]_vars
\* a round with a setter has ended: the setter and a guesser are done
C1_Witness ==
  /\ status = "results"
  /\ \E s, g \in Ids : /\ players[s].isWordSetter /\ players[s].done
                        /\ players[g].present /\ ~players[g].isWordSetter /\ players[g].done

StatusKinds == {"lobbyStatus", "chooseStatus", "setterStatus", "watchStatus",
                "roundEndStatus", "resultsStatus"}
\* the callback of the status subscription of kind k runs its handler
StatusCb(c, k) ==
  CASE k = "lobbyStatus" -> LobbyStatusCb(c)
    [] k = "chooseStatus" -> ChooseStatusCb(c)
    [] k = "setterStatus" -> SetterStatusCb(c)
    [] k = "resultsStatus" -> ResultsStatusCb(c)
    [] OTHER -> StatusResultsCb(c, k)
\* a status callback of client c calls startMpRound()
RunsStartMpRound(c) ==
  status = "playing" /\ (LobbyStatusCb(c) \/ ChooseStatusCb(c) \/ ResultsStatusCb(c))

C4_ResultsOnce ==
  [][ \A c \in Clients : \A k \in {"roundEndPlayers", "watchPlayers"} :
        PlayersDoneCb(c, k) =>
          /\ status = "playing"
          /\ subs'[c]["roundEndPlayers"] = 0 /\ subs'[c]["watchPlayers"] = 0
    ]_vars
\* after the results write a guest has left: the players map has changed
C4_Witness ==
  /\ status = "results"
  /\ \E c \in Clients : ~mpIsHost[c] /\ told = Toast(c, "left") /\ players[c] = NoPlayer
  /\ \E h \in Clients : mpIsHost[h] /\ subs[h]["roundEndPlayers"] = 0
                          /\ subs[h]["watchPlayers"] = 0 /\ startedRound[h] = round

\* a step writes nothing of the store but the player record of client c
WritesOwnRecordOnly(c) ==
  /\ UNCHANGED <<host, status, gameMode, round, targetWord, wordSetterIndex, wordQueue>>
  /\ \A id \in Ids : (id # mpPlayerId[c] /\ id # mpPlayerId'[c]) => players'[id] = players[id]

\* C5: every step of a client that is not the host, whatever operation it
\* runs (the start of a round, play again and the return to the lobby
\* included), writes only under players/{its own id}.
C5_WriteAuthority ==
  [][ \A c \in Clients :
        (~mpIsHost[c] /\ ~mpIsHost'[c] /\ OpenAct(c)) => WritesOwnRecordOnly(c) ]_vars

\* the designated setter is a connected guest whose record holds the proposal w
Proposed(w) ==
  /\ status = "choosing" /\ LiveSetter \in Ids /\ LiveSetter # host
  /\ players[LiveSetter].proposedWord = w
\* the round has started with the word w of the setter
Relayed(w) ==
  /\ status = "playing" /\ targetWord = toUpperCase(w)
  /\ LiveSetter \in Ids /\ players[LiveSetter].done /\ players[LiveSetter].isWordSetter
  /\ \A id \in Ids : players[id].proposedWord = NoWord
\* the words of five letters a setter can write
FiveLetterWords == {w \in {toUpperCase(x) : x \in SecretInputs} : IsProposable(w)}

\* the host relay of client c listens and sees a value that is not a word of
\* five letters
SeesRefusedValue(c) ==
  /\ status = "choosing" /\ mpIsHost[c] /\ subs[c]["relay"] > 0 /\ hpc[c] = "none"
  /\ RelaySees(c) \in RawProposals

\* C6: in choosing, once the record of a designated setter that is not the
\* host holds a word of five letters, the status eventually becomes playing
\* with targetWord the upper case of that word, the setter's record done and
\* marked as the setter's, and every proposedWord cleared, unless the host
\* disconnects; while the relay sees a value that is not five letters, no step
\* of the host writes the fields of the round or the record of another player,
\* and the relay stays subscribed.
C6_RelayCompletes ==
  /\ \A w \in FiveLetterWords :
       (Proposed(w) /\ HostConnected) ~> (Relayed(w) \/ ~HostConnected)
  /\ [][ \A c \in Clients :
           (SeesRefusedValue(c) /\ Act(c)) =>
             /\ UNCHANGED <<status, targetWord, round, wordSetterIndex, wordQueue>>
             /\ \A id \in Ids : id # mpPlayerId[c] => players'[id] = players[id]
             /\ subs'[c]["relay"] > 0
       ]_vars
\* a round started by the relay of a guest's word
C6_Witness ==
  /\ \E w \in FiveLetterWords : Relayed(w)
  /\ LiveSetter # host /\ gameMode = "custom"
  /\ \E c \in Clients : mpIsHost[c] /\ startedRound[c] = round

\* C7: a call of mpSubmitSecretWord() by a client whose current identity
\* token is not the setter the store names writes nothing to the store and
\* ends there; when the player id the client had cached is that setter and
\* differs from its token, the call ends with the rejoin message.
C7_IdentityRecheck ==
  [][ \A c \in Clients : \A w \in SecretInputs :
        (SubmitCheck(c, w) /\ mpPartyRef[c] /\ authUid[c] # LiveSetter) =>
          /\ UNCHANGED storeVars
          /\ opc'[c] = "idle"
          /\ told'.by = c /\ told'.msg \in {"rejoin", "waiting"}
          /\ (mpPlayerId[c] = LiveSetter /\ mpPlayerId[c] # authUid[c]) =>
                told' = Toast(c, "rejoin")
    ]_vars
\* the setter's token has changed and its submission was refused
C7_Witness ==
  \E c \in Clients : /\ told = Toast(c, "rejoin") /\ status = "choosing"
                      /\ authUid[c] # LiveSetter /\ LiveSetter = c /\ opc[c] = "idle"
                      /\ players[c].proposedWord = NoWord

\* C8: after leaveParty() has been called, whether the store accepted the
\* removal or rejected it, the client holds no subscription, is inactive and
\* has no party reference.
C8_LeaveReleases ==
  \A c \in Clients :
    (told = Toast(c, "left") \/ told = Rejected(c)) =>
      (subs[c] = NoSubs /\ ~mpActive[c] /\ ~mpPartyRef[c])

\* C9: leaveParty() of the host deletes the whole party record; leaveParty()
\* of another client removes the player record of that client and leaves the
\* party's fields and every other player record as they were.
C9_LeaveEffect ==
  [][ \A c \in Clients :
        LeaveParty(c) =>
          IF mpIsHost[c]
            THEN ~PartyExists'
            ELSE /\ players'[mpPlayerId[c]] = NoPlayer
                 /\ \A id \in Ids : id # mpPlayerId[c] => players'[id] = players[id]
                 /\ UNCHANGED <<host, status, gameMode, round, targetWord, wordQueue,
                                wordSetterIndex>>
    ]_vars
\* a guest has left a party that goes on with its host
C9_Witness ==
  \E c \in Clients : /\ told = Toast(c, "left") /\ host \in Ids /\ host # c
                      /\ players[host].present /\ players[c] = NoPlayer
                      /\ status \in {"lobby", "playing", "results"}

\* C10: whenever a party record exists in the store, its host field is set
\* and names a key of its players map.
C10_HostIsPlayer ==
  PartyExists => (host \in Ids /\ players[host].present)

\* the values of the status field and the changes between them
Statuses == {"lobby", "choosing", "playing", "results"}
StatusTable == {<<"lobby", "playing">>, <<"lobby", "choosing">>, <<"choosing", "playing">>,
                <<"playing", "results">>, <<"results", "playing">>,
                <<"results", "choosing">>, <<"results", "lobby">>}
\* every change of the status of a party that exists is a change of the table
StatusChangesFollowTable ==
  [][ (status # NIL /\ status' # NIL /\ status' # status) =>
        <<status, status'>> \in StatusTable ]_vars

\* C11: a party is created with status lobby, the status of an existing
\* party is one of lobby, choosing, playing, results, and every change of the
\* status is one of the seven changes of the table.
C11_StatusTable ==
  /\ [](PartyExists => status \in Statuses)
  /\ [][ (~PartyExists /\ PartyExists') => status' = "lobby" ]_vars
  /\ StatusChangesFollowTable

\* C12: in an existing party the target word is non-empty only while the
\* status is playing or results, the states between the separate writes of
\* the start, the relay, play again and the return to the lobby included.
C12_TargetWordPhase ==
  (PartyExists /\ targetWord # NoWord /\ targetWord # <<>>) => status \in {"playing", "results"}
\* between the two writes of the relay of a later round: the word of the
\* round before has been cleared and the new one is not yet written
C12_Witness ==
  /\ status = "choosing" /\ round >= 2 /\ targetWord = <<>>
  /\ \E c \in Clients : hpc[c] = "relayStatus" /\ hWord[c] # NoWord

\* C13: in every state of the store, the guessCount of every player record
\* equals the number of entries of its guesses.
C13_GuessCount ==
  \A id \in Ids : players[id].present => players[id].guessCount = Cardinality(players[id].guesses)

\* the record of the designated setter of a custom round, when it exists
SetterRecordPresent ==
  gameMode = "custom" /\ LiveSetter \in Ids /\ players[LiveSetter].present

\* C14: in a custom round the record of the designated setter has done = true
\* while the status is playing, and from there to the results of the round it
\* has no entry under guesses and a guessCount of 0.
C14_SetterExcluded ==
  /\ (status = "playing" /\ SetterRecordPresent) => players[LiveSetter].done
  /\ (status \in {"playing", "results"} /\ SetterRecordPresent) =>
        (players[LiveSetter].guesses = {} /\ players[LiveSetter].guessCount = 0)

\* client c is connected and shows the results of a round
ShowsResults(c) == mpPartyRef[c] /\ modal[c] = "results"
\* the values of the status that the results screen reacts to
AfterResults == {"playing", "choosing", "lobby"}

NameIsEmpty(raw) == \A i \in DOMAIN raw : raw[i] = " " \/ ~IsNameChar(raw[i])
\* the code typed has six characters that a party code keeps
CodeHasSixChars(raw) ==
  Cardinality({i \in DOMAIN raw : IsCodeChar(toUpperChar(raw[i]))}) = PARTY_CODE_LENGTH
\* a join with these inputs has to fail in the current state of the store
JoinMustFail(rawName, rawCode) ==
  \/ NameIsEmpty(rawName)
  \/ ~CodeHasSixChars(rawCode)
  \/ normalizeCode(rawCode) # PartyCode
  \/ ~PartyExists
  \/ status # "lobby"

\* C16: a joinParty() with a name that sanitizes to empty, a code that has not
\* six characters, a code with no party record or a party that is not in the
\* lobby ends with a message, writes nothing to the store, registers no
\* subscription and leaves the client inactive and without a party reference.
C16_FailedJoin ==
  [][ \A c \in Clients : \A n \in NameInputs : \A k \in CodeInputs :
        (JoinRead(c, n, k) /\ JoinMustFail(n, k)) =>
          /\ opc'[c] = "idle"
          /\ told'.by = c /\ told'.msg \in {"enterName", "validCode", "notFound", "inProgress"}
          /\ UNCHANGED storeVars
          /\ subs' = subs
          /\ ~mpActive'[c] /\ ~mpPartyRef'[c]
    ]_vars
\* a player that left a running round was refused when it tried to come back
C16_Witness ==
  \E c \in Clients : /\ told = Toast(c, "inProgress") /\ status \in {"choosing", "playing", "results"}
                      /\ ~mpActive[c] /\ ~mpPartyRef[c] /\ subs[c] = NoSubs
                      /\ ~players[authUid[c]].present

\* the word typed is not one that the game accepts as a secret word
NotAWord(w) ==
  \/ Len(w) # WORD_LENGTH
  \/ \E i \in DOMAIN w : w[i] \notin Lower \cup Upper
  \/ ~isValidWord(toUpperCase(w))

\* C17: a call of mpSubmitSecretWord() with a word that has not exactly five
\* letters, holds a character that is not a letter, or is not in the accepted
\* word list is rejected with a message and ends there: nothing is written,
\* neither then nor by a later step of the call.
C17_LocalValidation ==
  [][ \A c \in Clients : \A w \in SecretInputs :
        (SubmitCheck(c, w) /\ NotAWord(w)) =>
          /\ UNCHANGED storeVars
          /\ opc'[c] = "idle"
          /\ told'.by = c
    ]_vars

\* the row typed is refused by the local validation of submitGuess()
GuessRefused(g) == Len(g) < WORD_LENGTH \/ ~isValidWord(g)

\* C18: a guess refused by the local validation (too few letters, not in the
\* word list) writes nothing to the store and leaves the local state of the
\* round as it was: the row, the recorded guesses and the done flags.
C18_RejectedGuess ==
  [][ \A c \in Clients : \A g \in GuessInputs :
        (SubmitGuess(c, g) /\ GuessRefused(g)) =>
          /\ UNCHANGED storeVars
          /\ UNCHANGED <<currentRow, gameOver, mpLocalGuesses, mpDone, pendingCount>>
          /\ told'.by = c
    ]_vars

\* client c plays the current round of its party and its record exists
PlaysRound(c) ==
  /\ mpActive[c] /\ mpPartyRef[c] /\ mpPlayerId[c] \in Ids
  /\ status = "playing" /\ startedRound[c] = round
  /\ players[mpPlayerId[c]].present

\* C19: a client is never left with its local done flag set while the store
\* has done = false for its record: a write of mpRecordGuess() or
\* mpMarkDone() that fails leaves the client able to repeat the action.
C19_DoneFlagAgrees ==
  \A c \in Clients : (PlaysRound(c) /\ mpDone[c]) => players[mpPlayerId[c]].done

\* C20: one acquisition calls signInAnonymously() at most MAX_TRIES times
\* and every call of ensureFirebaseReady() that awaits it eventually returns
\* true or false, whatever fails or times out; a call that returns false has
\* set an error message, and the cached acquisition is cleared by then, so
\* that the next call without a user starts a new acquisition with its first
\* attempt.
C20_BoundedAcquisition ==
  /\ [](signIns <= MAX_TRIES /\ attempt <= MAX_TRIES)
  /\ \A k \in Callers : (cpc[k] = "awaiting") ~> (cpc[k] \in {"true", "false"})
  /\ (apc # "none") ~> (apc = "none")
  /\ [][ \A k \in Callers :
           /\ (cpc[k] = "awaiting" /\ cpc'[k] = "false") =>
                 (mpLastAuthErrorMessage' # "" /\ mpAuthReadyPromise' = "null")
           /\ (Call(k) /\ ~currentUser /\ mpAuthReadyPromise = "null") =>
                 (mpAuthReadyPromise' = "pending" /\ apc' = "signIn" /\ signIns' = 1)
       ]_vars
\* an acquisition has failed at its third attempt and a later call has
\* started a new one
C20_Witness ==
  /\ cpc["warmup"] = "false" /\ cpc["tap"] = "awaiting"
  /\ mpAuthReadyPromise = "pending" /\ signIns = MAX_TRIES /\ attempt = MAX_TRIES

\* C21: a sign-in attempt that fails with auth/operation-not-allowed ends
\* the acquisition in the same step, whichever attempt it was: the cache is
\* cleared, the calls that await it return false with the message of the
\* disabled sign-in, and neither a back-off nor a further call of
\* signInAnonymously() follows.
C21_DisabledFailsAtOnce ==
  [][ AttemptFails("notAllowed") =>
        /\ apc' = "none" /\ mpAuthReadyPromise' = "null"
        /\ signIns' = signIns /\ attempt' = attempt
        /\ mpLastAuthErrorMessage' = "signInDisabled"
        /\ \A k \in Callers : cpc[k] = "awaiting" => cpc'[k] = "false"
    ]_vars
\* the acquisition was ended by the disabled sign-in before its last attempt
C21_Witness ==
  /\ lastErr = "notAllowed" /\ apc = "none" /\ mpAuthReadyPromise = "null"
  /\ signIns = 2 /\ mpLastAuthErrorMessage = "signInDisabled"
  /\ \E k \in Callers : cpc[k] = "false"

(* ------------------------- evaluateGuess alone -------------------------- *)
\* The function is called once with two five-letter strings.  The letters
\* are two capitals and a small letter, so that a letter can occur several
\* times and in both cases; the two words of the documented example are
\* added.
EvalLetters == {"A", "B", "a"}
EvalWords == [Positions -> EvalLetters]
               \cup {<<"C", "R", "A", "N", "E">>, <<"T", "R", "A", "C", "E">>}
EvalInit ==
  /\ SessionInit /\ BoardIdle
  /\ called = "none"
  /\ evGuess \in EvalWords /\ evTarget \in EvalWords /\ evResult = <<>>
  /\ codeBytes = <<>> /\ codeOut = <<>>
  /\ nameRaw = <<>> /\ nameOut = <<>>
  /\ resPlayers = <<>> /\ resRows = <<>>
CallEvaluateGuess ==
  /\ called = "none" /\ evGuess # <<>>
  /\ evResult' = evaluateGuess(evGuess, evTarget)
  /\ called' = "evaluateGuess"
  /\ UNCHANGED <<evGuess, evTarget, codeBytes, codeOut, nameRaw, nameOut, resPlayers,
                 resRows, boardVars, partyVars, acqVars, roundCap>>
EvalNext == CallEvaluateGuess
EvalSpec == EvalInit /\ [][EvalNext]_vars

(* ------------------------ properties: evaluateGuess --------------------- *)
Marked(r) == r \in {"correct", "present"}
\* the positions of word w that hold letter x
Holding(w, x) == {i \in DOMAIN w : w[i] = x}

\* C22: for every letter X, the positions of the guess that hold X and are
\* marked correct or present are at most as many as the positions of the
\* target that hold X.
C22_MarksWithinTarget ==
  called = "evaluateGuess" =>
    \A x \in {evGuess[i] : i \in Positions} :
      Cardinality({i \in Holding(evGuess, x) : Marked(evResult[i])})
        <= Cardinality(Holding(evTarget, x))
\* a letter the guess holds more often than the target: every occurrence of
\* the target is claimed, one of them by a misplaced letter, and the
\* surplus of the guess is absent
C22_Witness ==
  /\ called = "evaluateGuess"
  /\ \E x \in EvalLetters :
       /\ Cardinality(Holding(evGuess, x)) > Cardinality(Holding(evTarget, x))
       /\ Cardinality({i \in Holding(evGuess, x) : Marked(evResult[i])})
            = Cardinality(Holding(evTarget, x))
       /\ \E i \in Holding(evGuess, x) : evResult[i] = "present"
       /\ \E i \in Holding(evGuess, x) : evResult[i] = "absent"

\* the positions where guess and target differ
Unmatched(g, t) == {i \in Positions : g[i] # t[i]}
\* the marks as the two passes are described: a match is correct; another
\* position is present when fewer unmatched positions to its left hold its
\* letter than unmatched positions of the target do
TwoPassReference(g, t) ==
  [i \in Positions |->
     IF g[i] = t[i] THEN "correct"
     ELSE IF Cardinality({j \in Unmatched(g, t) : j < i /\ g[j] = g[i]})
               < Cardinality({k \in Unmatched(g, t) : t[k] = g[i]})
            THEN "present"
            ELSE "absent"]
\* C23: evaluateGuess returns one mark per position, and the marks are
\* those of the two-pass reference: the leftmost unmatched positions of the
\* guess claim the unmatched letters of the target.
C23_TwoPassReference ==
  called = "evaluateGuess" =>
    /\ DOMAIN evResult = Positions
    /\ evResult = TwoPassReference(evGuess, evTarget)
\* the documented example: TRACE against CRANE
C23_Witness ==
  /\ called = "evaluateGuess"
  /\ evGuess = <<"T", "R", "A", "C", "E">> /\ evTarget = <<"C", "R", "A", "N", "E">>
  /\ evResult = <<"absent", "correct", "correct", "present", "correct">>

\* C24: changing the letter case of the guess or of the target does not
\* change the marks evaluateGuess returns.
C24_CaseInsensitive ==
  called = "evaluateGuess" =>
    /\ evaluateGuess(toLowerCase(evGuess), evTarget) = evResult
    /\ evaluateGuess(evGuess, toLowerCase(evTarget)) = evResult
(* --------------------- the board outside a party ----------------------- *)
\* The board of script.js with its hard mode.  The letters of a row are
\* typed in one step.  submitGuess() hands the marks to revealRow(), whose
\* timer runs the rest of the function later: until then the row stays as
\* typed, Enter may be pressed again and a new game may be started.
\* Saving and loading the board are left out.
BoardRows == {<<"A", "B", "A", "B", "A">>, <<"B", "A", "B", "A", "B">>,
              <<"B", "A", "C", "A", "A">>, <<"C", "A", "C", "A", "A">>,
              <<"A", "A", "A", "A", "A">>, <<"A", "B">>}
Least(S) == CHOOSE x \in S : \A y \in S : x <= y
\* guessWord.split('').filter(l => l === letter).length
CountOf(w, letter) == Cardinality({i \in DOMAIN w : w[i] = letter})
\* the positions marked correct or present
MarkedAt(result) == {i \in Positions : result[i] \in {"correct", "present"}}
\* the keys of freqMap, in the order they were added
FreqKeys(guess, result) ==
  LET first == {i \in MarkedAt(result) :
                  \A j \in MarkedAt(result) : guess[j] = guess[i] => i <= j}
      kept == SelectSeq([i \in Positions |-> i], LAMBDA i : i \in first)
  IN [k \in DOMAIN kept |-> guess[kept[k]]]
FreqCount(guess, result, letter) ==
  Cardinality({i \in MarkedAt(result) : guess[i] = letter})
\* a minimum that follows the latest guess
LatestCount(existing, count) == count
\* Math.max(existing.minCount, count)
MinCountAfter(existing, count) == IF existing >= count THEN existing ELSE count
\* the loop over the entries of freqMap
RECURSIVE MergeCounts(_, _, _, _)
MergeCounts(mustContain, keys, guess, result) ==
  IF keys = <<>> THEN mustContain
  ELSE LET letter == Head(keys)
           count == FreqCount(guess, result, letter)
           found == {k \in DOMAIN mustContain : mustContain[k].letter = letter}
       IN MergeCounts(
            IF found = {}
              THEN Append(mustContain, [letter |-> letter, minCount |-> count])
              ELSE [mustContain EXCEPT ![Least(found)].minCount = MinCountAfter(@, count)],
            Tail(keys), guess, result)
updateHardConstraints(hc, guess, result) ==
  LET correct == {i \in Positions : result[i] = "correct"}
  IN [exactPositions |->
        [pos \in DOMAIN hc.exactPositions \cup correct |->
           IF pos \in correct THEN guess[pos] ELSE hc.exactPositions[pos]],
      mustContain |-> MergeCounts(hc.mustContain, FreqKeys(guess, result), guess, result)]
\* a validation that looks at the recorded positions only
checkExactOnly(hc, guessWord) ==
  LET bad == {pos \in DOMAIN hc.exactPositions : guessWord[pos] # hc.exactPositions[pos]}
  IN IF bad # {}
       THEN [kind |-> "letterMustBe", pos |-> Least(bad),
             letter |-> hc.exactPositions[Least(bad)]]
       ELSE NoToast
\* checkHardMode(guessWord): the message, or NoToast for null.  The
\* positions are visited in ascending order, the letters in the order they
\* were recorded.
checkHardMode(hc, guessWord) ==
  LET bad == {pos \in DOMAIN hc.exactPositions : guessWord[pos] # hc.exactPositions[pos]}
      lacking == {k \in DOMAIN hc.mustContain :
                    CountOf(guessWord, hc.mustContain[k].letter) < hc.mustContain[k].minCount}
  IN IF bad # {}
       THEN [kind |-> "letterMustBe", pos |-> Least(bad),
             letter |-> hc.exactPositions[Least(bad)]]
       ELSE IF lacking # {}
         THEN [kind |-> "mustContain", pos |-> 0,
               letter |-> hc.mustContain[Least(lacking)].letter]
         ELSE NoToast

\* init(): a board with no row played, hard mode as the settings say
BoardInit ==
  /\ SessionInit /\ PureIdle
  /\ soloTarget \in {toUpperCase(w) : w \in ANSWERS}
  /\ hardMode \in BOOLEAN
  /\ hardConstraints = NoConstraints
  /\ soloRow = 0 /\ soloOver = FALSE
  /\ currentGuess = <<>> /\ reveals = <<>> /\ toast = NoToast
  /\ pageActive = FALSE /\ pageLocalGuesses = 0 /\ pageDone = FALSE
  /\ pageIsWordSetter = FALSE
\* addLetter() and deleteLetter(): the row in play becomes g
TypeRow(g) ==
  /\ ~soloOver /\ g # currentGuess
  /\ currentGuess' = g
  /\ toast' = NoToast
  /\ UNCHANGED <<soloTarget, hardMode, hardConstraints, soloRow, soloOver, reveals,
                 pageVars, pureVars, partyVars, acqVars, roundCap>>
\* handleKey('Enter'): submitGuess() up to the call of revealRow()
Enter ==
  /\ ~soloOver /\ Len(reveals) < MaxReveals
  /\ IF Len(currentGuess) < WORD_LENGTH
       THEN toast' = Toasted("notEnough") /\ UNCHANGED reveals
       ELSE IF ~isValidWord(currentGuess)
         THEN toast' = Toasted("notInList") /\ UNCHANGED reveals
         ELSE IF hardMode /\ checkHardMode(hardConstraints, currentGuess) # NoToast
           THEN toast' = checkHardMode(hardConstraints, currentGuess) /\ UNCHANGED reveals
           ELSE /\ reveals' = Append(reveals,
                                     [guess |-> currentGuess,
                                      result |-> evaluateGuess(currentGuess, soloTarget)])
                /\ toast' = NoToast
  /\ UNCHANGED <<soloTarget, hardMode, hardConstraints, soloRow, soloOver, currentGuess,
                 pageVars, pureVars, partyVars, acqVars, roundCap>>
\* the callback of revealRow(): the rest of submitGuess(), with
\* mpRecordGuess() and, when the row ends the game, mpMarkDone()
RevealDone ==
  /\ reveals # <<>>
  /\ LET r == Head(reveals)
         won == \A i \in Positions : r.result[i] = "correct"
         records == pageActive /\ ~pageDone /\ ~pageIsWordSetter
         ends == won \/ soloRow + 1 >= SoloRows
     IN /\ hardConstraints' = updateHardConstraints(hardConstraints, r.guess, r.result)
        /\ pageLocalGuesses' = IF records THEN pageLocalGuesses + 1 ELSE pageLocalGuesses
        /\ pageDone' = (pageDone \/ (records /\ ends))
        /\ soloRow' = soloRow + 1
        /\ IF won
             THEN /\ soloOver' = TRUE /\ toast' = Toasted("won")
                  /\ UNCHANGED currentGuess
             ELSE /\ currentGuess' = <<>>
                  /\ IF soloRow + 1 >= SoloRows
                       THEN soloOver' = TRUE /\ toast' = Toasted("lost")
                       ELSE UNCHANGED soloOver /\ toast' = NoToast
  /\ reveals' = Tail(reveals)
  /\ UNCHANGED <<soloTarget, hardMode, pageActive, pageIsWordSetter, pureVars, partyVars,
                 acqVars, roundCap>>
\* resetGame(): startGame() with a word picked at random
resetGame ==
  /\ soloRow' = 0 /\ currentGuess' = <<>> /\ soloOver' = FALSE
  /\ hardConstraints' = NoConstraints
  /\ soloTarget' \in {toUpperCase(w) : w \in ANSWERS}
  /\ toast' = NoToast
  /\ UNCHANGED <<hardMode, reveals, pageVars, pureVars, partyVars, acqVars, roundCap>>
\* the change handler of #hard-mode-toggle
ToggleHardMode ==
  /\ IF soloRow > 0 /\ ~soloOver
       THEN toast' = Toasted("hardModeLocked") /\ UNCHANGED hardMode
       ELSE hardMode' = ~hardMode /\ toast' = NoToast
  /\ UNCHANGED <<soloTarget, hardConstraints, soloRow, soloOver, currentGuess, reveals,
                 pageVars, pureVars, partyVars, acqVars, roundCap>>
\* enterLobby(): the page has created or joined a party
PageEntersParty ==
  /\ ~pageActive
  /\ pageActive' = TRUE
  /\ toast' = NoToast
  /\ UNCHANGED <<soloTarget, hardMode, hardConstraints, soloRow, soloOver, currentGuess,
                 reveals, pageLocalGuesses, pageDone, pageIsWordSetter, pureVars,
                 partyVars, acqVars, roundCap>>
\* handleChoosingPhase(): the page learns whether it sets the word
PageChoosingPhase(setter) ==
  /\ pageActive
  /\ pageIsWordSetter' = setter
  /\ toast' = NoToast
  /\ UNCHANGED <<soloTarget, hardMode, hardConstraints, soloRow, soloOver, currentGuess,
                 reveals, pageActive, pageLocalGuesses, pageDone, pureVars, partyVars,
                 acqVars, roundCap>>
\* the words a party may hold as its targetWord: an answer, or a custom word
PartyTargets == {toUpperCase(w) : w \in ANSWERS} \cup {<<"C", "A", "C", "A", "A">>}
\* a round start that lets the word of startGame() stand
TargetOfStartGame(partyTarget, picked) == picked
\* targetWord after startMpRound(): startGame() picks a word, then the
\* word of the party is assigned
TargetAfterRoundStart(partyTarget, picked) == partyTarget
\* startMpRound() with party.targetWord = t
PageStartsRound(t) ==
  /\ pageActive
  /\ pageLocalGuesses' = 0 /\ pageDone' = FALSE /\ pageIsWordSetter' = FALSE
  /\ soloRow' = 0 /\ currentGuess' = <<>> /\ soloOver' = FALSE
  /\ hardConstraints' = NoConstraints
  /\ \E picked \in {toUpperCase(w) : w \in ANSWERS} :
       soloTarget' = TargetAfterRoundStart(t, picked)
  /\ toast' = Toasted("banner")
  /\ UNCHANGED <<hardMode, reveals, pageActive, pureVars, partyVars, acqVars, roundCap>>
\* cleanupMp()
PageLeavesParty ==
  /\ pageActive
  /\ pageActive' = FALSE /\ pageLocalGuesses' = 0 /\ pageDone' = FALSE
  /\ pageIsWordSetter' = FALSE
  /\ toast' = NoToast
  /\ UNCHANGED <<soloTarget, hardMode, hardConstraints, soloRow, soloOver, currentGuess,
                 reveals, pureVars, partyVars, acqVars, roundCap>>
BoardNext ==
  \/ \E g \in BoardRows : TypeRow(g)
  \/ Enter
  \/ RevealDone
  \/ resetGame
  \/ ToggleHardMode
BoardSpec == BoardInit /\ [][BoardNext]_vars

\* The same board on a page that takes part in a party, over the rounds of
\* the party: the store is left out, and the word of a round is any word a
\* party may hold.
RoundInit ==
  /\ SessionInit /\ PureIdle
  /\ soloTarget \in {toUpperCase(w) : w \in ANSWERS}
  /\ hardMode \in BOOLEAN
  /\ hardConstraints = NoConstraints
  /\ soloRow = 0 /\ soloOver = FALSE
  /\ currentGuess = <<>> /\ reveals = <<>> /\ toast = NoToast
  /\ pageActive = FALSE /\ pageLocalGuesses = 0 /\ pageDone = FALSE
  /\ pageIsWordSetter = FALSE
RoundNext ==
  \/ \E g \in BoardRows : TypeRow(g)
  \/ Enter
  \/ RevealDone
  \/ PageEntersParty
  \/ \E setter \in BOOLEAN : PageChoosingPhase(setter)
  \/ \E t \in PartyTargets : PageStartsRound(t)
  \/ PageLeavesParty
RoundSpec == RoundInit /\ [][RoundNext]_vars

(* ------------------------- properties: hard mode ------------------------ *)
\* the minimum count recorded for a letter, 0 when none is
MinOf(mustContain, letter) ==
  IF \E k \in DOMAIN mustContain : mustContain[k].letter = letter
    THEN mustContain[Least({k \in DOMAIN mustContain : mustContain[k].letter = letter})].minCount
    ELSE 0
Recorded(mustContain) == {mustContain[k].letter : k \in DOMAIN mustContain}
\* hc2 keeps every position of hc1 and lowers no minimum of hc1
Grows(hc1, hc2) ==
  /\ DOMAIN hc1.exactPositions \subseteq DOMAIN hc2.exactPositions
  /\ \A x \in Recorded(hc1.mustContain) :
       MinOf(hc2.mustContain, x) >= MinOf(hc1.mustContain, x)
\* hc2 is hc1 after the marks of one guess have been recorded
RecordsGuess(hc1, hc2, g, r) ==
  /\ DOMAIN hc2.exactPositions
       = DOMAIN hc1.exactPositions \cup {i \in Positions : r[i] = "correct"}
  /\ \A pos \in DOMAIN hc2.exactPositions :
       hc2.exactPositions[pos] = IF r[pos] = "correct" THEN g[pos]
                                 ELSE hc1.exactPositions[pos]
  /\ \A x \in Recorded(hc1.mustContain) \cup Recorded(hc2.mustContain)
               \cup {g[i] : i \in Positions} :
       LET marks == Cardinality({i \in Positions : g[i] = x /\ Marked(r[i])})
           old == MinOf(hc1.mustContain, x)
       IN MinOf(hc2.mustContain, x)
            = IF marks >= 1 /\ marks > old THEN marks ELSE old
  /\ \A j, k \in DOMAIN hc2.mustContain :
       hc2.mustContain[j].letter = hc2.mustContain[k].letter => j = k

\* C25: the callback of a reveal records the marks of its guess: the exact
\* positions are the old ones and the correct positions of the guess, and the
\* minimum of a marked letter is the larger of the old minimum and the
\* number of its marks; a start of a game empties the constraints; no
\* other step changes them, so that between two starts no position is
\* dropped and no minimum decreases.
C25_ConstraintsGrow ==
  [][ /\ RevealDone =>
           RecordsGuess(hardConstraints, hardConstraints', Head(reveals).guess,
                        Head(reveals).result)
      /\ resetGame => hardConstraints' = NoConstraints
      /\ resetGame \/ Grows(hardConstraints, hardConstraints')
      /\ RevealDone \/ resetGame \/ hardConstraints' = hardConstraints
    ]_vars
\* two guesses of one game have been recorded, and the minimum of a letter
\* is the one of the first guess, larger than its marks in the second
C25_Witness ==
  /\ soloRow = 2 /\ ~soloOver /\ reveals = <<>>
  /\ DOMAIN hardConstraints.exactPositions = {5}
  /\ MinOf(hardConstraints.mustContain, "A") = 3
  /\ MinOf(hardConstraints.mustContain, "B") = 2

\* the recorded positions a word breaks, and the recorded letters it lacks
BrokenPositions(hc, w) ==
  {pos \in DOMAIN hc.exactPositions : w[pos] # hc.exactPositions[pos]}
LackingLetters(hc, w) ==
  {x \in Recorded(hc.mustContain) : CountOf(w, x) < MinOf(hc.mustContain, x)}
\* Enter pressed in hard mode on a full row that is in the word list
EnterChecked ==
  Enter /\ hardMode /\ Len(currentGuess) >= WORD_LENGTH /\ isValidWord(currentGuess)
\* C26: in hard mode a guess is accepted exactly when it holds every
\* recorded letter at its position and every recorded letter at least as
\* often as its minimum; a guess that breaks a position is refused with a
\* message that names a broken position and its letter, and a guess that
\* breaks no position but lacks a letter with a message that names a
\* lacking letter.
C26_HardModeValidation ==
  [][ EnterChecked =>
        IF BrokenPositions(hardConstraints, currentGuess) # {}
          THEN /\ toast'.kind = "letterMustBe"
               /\ toast'.pos \in BrokenPositions(hardConstraints, currentGuess)
               /\ toast'.letter = hardConstraints.exactPositions[toast'.pos]
               /\ reveals' = reveals
          ELSE IF LackingLetters(hardConstraints, currentGuess) # {}
            THEN /\ toast'.kind = "mustContain"
                 /\ toast'.letter \in LackingLetters(hardConstraints, currentGuess)
                 /\ reveals' = reveals
            ELSE /\ toast' = NoToast
                 /\ Len(reveals') = Len(reveals) + 1
    ]_vars
\* a guess with every recorded letter in place was refused for a letter it
\* lacks
C26_Witness ==
  /\ hardMode /\ toast.kind = "mustContain"
  /\ DOMAIN hardConstraints.exactPositions # {}
  /\ BrokenPositions(hardConstraints, currentGuess) = {}
  /\ toast.letter \in LackingLetters(hardConstraints, currentGuess)

(* --------------------- the ranking of showMpResults --------------------- *)
\* Object.values(players).sort(...) is called once with the records of a
\* party of up to three players, of whom at most one set the word.
MaxShown == 3
MaxShownGuesses == 2
ShownRecords == [isWordSetter : BOOLEAN, won : BOOLEAN, guessCount : 0..MaxShownGuesses]
ShownInputs ==
  {ps \in UNION {[1..n -> ShownRecords] : n \in 0..MaxShown} :
     Cardinality({i \in DOMAIN ps : ps[i].isWordSetter}) <= 1}
\* a comparison that does not look at who set the word
compareByScore(a, b) ==
  IF a.won /\ ~b.won THEN 0 - 1
  ELSE IF ~a.won /\ b.won THEN 1
  ELSE a.guessCount - b.guessCount
\* the comparison function handed to sort()
compareRows(a, b) ==
  IF a.isWordSetter THEN 1
  ELSE IF b.isWordSetter THEN 0 - 1
  ELSE IF a.won /\ ~b.won THEN 0 - 1
  ELSE IF ~a.won /\ b.won THEN 1
  ELSE a.guessCount - b.guessCount
\* Array.prototype.sort on a short array: a stable insertion sort, each
\* element placed before the elements it compares smaller than
RECURSIVE insertRow(_, _)
insertRow(sorted, x) ==
  IF sorted = <<>> THEN <<x>>
  ELSE IF compareRows(x, sorted[Len(sorted)]) < 0
         THEN Append(insertRow(SubSeq(sorted, 1, Len(sorted) - 1), x), sorted[Len(sorted)])
         ELSE Append(sorted, x)
RECURSIVE sortRows(_)
sortRows(values) ==
  IF values = <<>> THEN <<>>
  ELSE insertRow(sortRows(SubSeq(values, 1, Len(values) - 1)), values[Len(values)])
RankInit ==
  /\ SessionInit /\ BoardIdle
  /\ called = "none"
  /\ evGuess = <<>> /\ evTarget = <<>> /\ evResult = <<>>
  /\ codeBytes = <<>> /\ codeOut = <<>>
  /\ nameRaw = <<>> /\ nameOut = <<>>
  /\ resPlayers \in ShownInputs /\ resRows = <<>>
CallSort ==
  /\ called = "none"
  /\ resRows' = sortRows(resPlayers)
  /\ called' = "sort"
  /\ UNCHANGED <<evGuess, evTarget, evResult, codeBytes, codeOut, nameRaw, nameOut,
                 resPlayers, boardVars, partyVars, acqVars, roundCap>>
RankNext == CallSort
RankSpec == RankInit /\ [][RankNext]_vars

\* how often record p occurs in ps
Occurrences(ps, p) == Cardinality({i \in DOMAIN ps : ps[i] = p})
\* C27: the rows are the records of the players map, each as often as in
\* the map; the player who set the word is in the last row whatever its
\* won and guessCount are; among the others every winner is above every
\* loser, and the winners are in ascending order of guessCount.
C27_Ranking ==
  called = "sort" =>
    /\ Len(resRows) = Len(resPlayers)
    /\ \A p \in ShownRecords : Occurrences(resRows, p) = Occurrences(resPlayers, p)
    /\ \A i \in DOMAIN resRows : resRows[i].isWordSetter => i = Len(resRows)
    /\ \A i, j \in DOMAIN resRows :
         i < j /\ ~resRows[i].isWordSetter /\ ~resRows[j].isWordSetter =>
           /\ resRows[j].won => resRows[i].won
           /\ resRows[i].won /\ resRows[j].won =>
                resRows[i].guessCount <= resRows[j].guessCount
\* a setter whose record says it won in no guess came first in the map and
\* is shown last, below a winner and a loser that were in the other order
C27_Witness ==
  /\ called = "sort" /\ Len(resRows) = 3
  /\ resPlayers[1].isWordSetter /\ resPlayers[1].won /\ resPlayers[1].guessCount = 0
  /\ ~resPlayers[2].won /\ resPlayers[3].won
  /\ resRows = <<resPlayers[3], resPlayers[2], resPlayers[1]>>

(* --------------------------- generatePartyCode -------------------------- *)
\* The function is called once; crypto.getRandomValues() fills the array
\* with bytes, drawn here from values around the multiples of the length
\* of the alphabet and the ends of the range of a byte.
ByteSamples == {0, 8, 31, 32, 255}
\* the digits and capitals of a number written in base 36
base36Chars ==
  <<"0", "1", "2", "3", "4", "5", "6", "7", "8", "9",
    "A", "B", "C", "D", "E", "F", "G", "H", "I", "J", "K", "L", "M",
    "N", "O", "P", "Q", "R", "S", "T", "U", "V", "W", "X", "Y", "Z">>
\* const chars = 'ABCDEFGHJKLMNPQRSTUVWXYZ23456789'
chars ==
  <<"A", "B", "C", "D", "E", "F", "G", "H", "J", "K", "L", "M", "N", "P", "Q", "R",
    "S", "T", "U", "V", "W", "X", "Y", "Z", "2", "3", "4", "5", "6", "7", "8", "9">>
\* Array.from(arr, b => chars[b % chars.length]).join('')
generatePartyCode(arr) == [i \in DOMAIN arr |-> chars[(arr[i] % Len(chars)) + 1]]
CodeInit ==
  /\ SessionInit /\ BoardIdle
  /\ called = "none"
  /\ evGuess = <<>> /\ evTarget = <<>> /\ evResult = <<>>
  /\ codeBytes \in [1..CODE_BYTES -> ByteSamples] /\ codeOut = <<>>
  /\ nameRaw = <<>> /\ nameOut = <<>>
  /\ resPlayers = <<>> /\ resRows = <<>>
CallGeneratePartyCode ==
  /\ called = "none"
  /\ codeOut' = generatePartyCode(codeBytes)
  /\ called' = "generatePartyCode"
  /\ UNCHANGED <<evGuess, evTarget, evResult, codeBytes, nameRaw, nameOut, resPlayers,
                 resRows, boardVars, partyVars, acqVars, roundCap>>
CodeNext == CallGeneratePartyCode
CodeSpec == CodeInit /\ [][CodeNext]_vars

\* the capitals without I and O, and the digits without 0 and 1
UnambiguousAlphabet ==
  {"A", "B", "C", "D", "E", "F", "G", "H", "J", "K", "L", "M", "N", "P", "Q", "R", "S",
   "T", "U", "V", "W", "X", "Y", "Z", "2", "3", "4", "5", "6", "7", "8", "9"}
\* C28: whatever the random bytes are, generatePartyCode returns six
\* characters, each of them a capital other than I and O or a digit other
\* than 0 and 1.
C28_CodeAlphabet ==
  called = "generatePartyCode" =>
    /\ Len(codeOut) = 6
    /\ \A i \in DOMAIN codeOut : codeOut[i] \in UnambiguousAlphabet
\* a code made from the smallest and the largest byte and from bytes on
\* both sides of the length of the alphabet
C28_Witness ==
  /\ called = "generatePartyCode"
  /\ codeBytes = <<0, 255, 31, 32, 8, 8>>
  /\ codeOut = <<"A", "9", "9", "A", "J", "J">>

(* -------------------------- the name of a player ------------------------ *)
\* createParty() and joinParty() compute the name they store from the value
\* of the name field: every short string over a letter, the space, a
\* refused character and the hyphen, the documented kind of example, and
\* strings longer than the cap.
NameChars == {"a", " ", "!", "-"}
MaxShortName == 4
Repeat(ch, n) == [i \in 1..n |-> ch]
LongNames ==
  {Repeat("a", 19) \o <<" ", "b">>,
   Repeat("a", 18) \o <<"!", " ", " ", "b", "b">>,
   Repeat("a", 25),
   <<" ">> \o Repeat("b", 20) \o <<" ">>}
RawNames ==
  UNION {[1..n -> NameChars] : n \in 0..MaxShortName}
    \cup {<<" ", " ", "A", "b", "!", "!", " ", "b", "a", "_", "1", "2", " ", " ">>}
    \cup LongNames
NameInit ==
  /\ SessionInit /\ BoardIdle
  /\ called = "none"
  /\ evGuess = <<>> /\ evTarget = <<>> /\ evResult = <<>>
  /\ codeBytes = <<>> /\ codeOut = <<>>
  /\ nameRaw \in RawNames /\ nameOut = <<>>
  /\ resPlayers = <<>> /\ resRows = <<>>
\* const rawName = ...value.trim(); const name = sanitizePlayerName(rawName)
CallSanitizePlayerName ==
  /\ called = "none"
  /\ nameOut' = sanitizePlayerName(trim(nameRaw))
  /\ called' = "sanitizePlayerName"
  /\ UNCHANGED <<evGuess, evTarget, evResult, codeBytes, codeOut, nameRaw, resPlayers,
                 resRows, boardVars, partyVars, acqVars, roundCap>>
NameNext == CallSanitizePlayerName
NameSpec == NameInit /\ [][NameNext]_vars

\* C29: the name that createParty() and joinParty() store holds only
\* letters, digits, spaces, hyphens and apostrophes, no two spaces in a row,
\* no space at its start or at its end, and at most 20 characters.
C29_StoredName ==
  called = "sanitizePlayerName" /\ nameOut # <<>> =>
    /\ \A i \in DOMAIN nameOut :
         nameOut[i] \in Lower \cup Upper \cup Digits \cup {" ", "-", "'"}
    /\ \A i \in DOMAIN nameOut : i + 1 \in DOMAIN nameOut =>
         ~(nameOut[i] = " " /\ nameOut[i + 1] = " ")
    /\ nameOut[1] # " " /\ nameOut[Len(nameOut)] # " "
    /\ Len(nameOut) <= 20

(* ------------------- properties: subscriptions and phases --------------- *)
\* the phase in which a subscription of kind k is registered
PhaseOf(k) ==
  CASE k \in {"lobbyPlayers", "lobbyMode", "lobbyStatus"} -> "lobby"
    [] k \in {"chooseStatus", "relay", "setterStatus"} -> "choosing"
    [] k \in {"liveBoards", "roundEndPlayers", "roundEndStatus", "watchPlayers",
              "watchStatus"} -> "playing"
    [] k = "resultsStatus" -> "results"
Phases == {PhaseOf(k) : k \in Kinds}
\* C30: the subscriptions a client holds are those of one phase, each
\* registered once: the subscriptions of the phase it has left have been
\* released, and what it holds is never more than one phase registers.
C30_PhaseScoped ==
  \A c \in Clients : \E p \in Phases :
    \A k \in Kinds : subs[c][k] <= (IF PhaseOf(k) = p THEN 1 ELSE 0)

(* ----------------------- properties: round start ----------------------- *)
\* C31: when startMpRound() has run on a page, the board is empty (row 0,
\* no letter typed, game not over), the hard-mode constraints are empty, the
\* list of local guesses is empty and the done and word-setter flags are
\* false; the word to find is the word of the party, which was assigned
\* after the board had been cleared and so is not the word the clearing
\* picks.
C31_CleanRoundStart ==
  [][ \A t \in PartyTargets :
        PageStartsRound(t) =>
          /\ soloRow' = 0 /\ currentGuess' = <<>> /\ ~soloOver'
          /\ hardConstraints' = NoConstraints
          /\ pageLocalGuesses' = 0 /\ ~pageDone' /\ ~pageIsWordSetter'
          /\ soloTarget' = t
    ]_vars
\* a round has started on a clean board while a row of the round before is
\* still being revealed
C31_Witness ==
  /\ toast = Toasted("banner") /\ pageActive
  /\ soloRow = 0 /\ currentGuess = <<>> /\ hardConstraints = NoConstraints
  /\ pageLocalGuesses = 0 /\ ~pageDone
  /\ soloTarget = <<"C", "A", "C", "A", "A">>
  /\ reveals # <<>>

(* --------------------- properties: the start of a round ----------------- *)
\* the store's record of a player is as a round start leaves it: not won, no
\* guess, and done exactly when it is the record of the setter
FreshRecord(p) ==
  /\ ~p.won /\ p.guessCount = 0 /\ p.guesses = {}
  /\ p.done = p.isWordSetter
\* C32: in every step that writes the status playing, the store the write
\* leaves holds only reset player records: won false, guessCount 0, no
\* guesses, done true exactly on the record of the setter and on no record
\* in classic mode, at most one record marked as the setter's, and a target
\* word of five capital letters.
C32_ResetBeforePlaying ==
  [][ (status # "playing" /\ status' = "playing") =>
        /\ \A id \in Ids : players'[id].present => FreshRecord(players'[id])
        /\ gameMode' = "classic" => \A id \in Ids : ~players'[id].isWordSetter
        /\ Cardinality({id \in Ids : players'[id].present /\ players'[id].isWordSetter}) <= 1
        /\ Len(targetWord') = 5 /\ IsUpperAlpha(targetWord')
    ]_vars

\* C33: the last write of mpHostStart() in custom mode, made for the n >= 2
\* player ids the function has read, sets a wordQueue with the keys 0..n-1
\* (the indices 1..n here) that holds each of these ids exactly once, a
\* wordSetterIndex of 0 and the status choosing; a host start that reads
\* fewer than two player ids writes nothing, and the party stays in the
\* lobby.
C33_CustomStart ==
  [][ \A c \in Clients :
        /\ (StartStatus(c) /\ mpGameMode[c] = "custom") =>
              /\ Cardinality(opIds[c]) >= 2
              /\ Len(wordQueue') = Cardinality(opIds[c])
              /\ {wordQueue'[i] : i \in DOMAIN wordQueue'} = opIds[c]
              /\ \A i, j \in DOMAIN wordQueue' : wordQueue'[i] = wordQueue'[j] => i = j
              /\ wordSetterIndex' = 0
              /\ status' = "choosing"
        /\ (StartRead(c) /\ Cardinality(PlayerIds) < 2) =>
              /\ UNCHANGED storeVars
              /\ opc'[c] = "idle"
              /\ status' = "lobby"
    ]_vars
\* the first custom round of a party of two has been started
C33_Witness ==
  /\ status = "choosing" /\ gameMode = "custom" /\ round = 1
  /\ Len(wordQueue) = 2 /\ wordQueue[1] # wordQueue[2]
  /\ wordSetterIndex = 0
  /\ \A c \in Clients : opc[c] = "idle"

C35_SatisfiableByTarget ==
  /\ checkHardMode(hardConstraints, soloTarget) = NoToast
  /\ \A pos \in DOMAIN hardConstraints.exactPositions :
        hardConstraints.exactPositions[pos] = soloTarget[pos]

\* client c is a member of the party
InParty(c) == mpActive[c] /\ mpPartyRef[c]
\* C36: while the party is playing, every client that has run startMpRound()
\* for the round being played scores its guesses against the targetWord of
\* the party: startMpRound() leaves the client with the word of the party,
\* and as long as the party stays in the playing phase a client that plays
\* this round keeps the word of the party, also when the host has pressed
\* Start or Play Again a second time while its first call was suspended.
C36_TargetAgreement ==
  [][ \A c \in Clients :
        /\ RunsStartMpRound(c) => boardTarget'[c] = targetWord'
        /\ ( /\ status = "playing" /\ status' = "playing"
             /\ InParty(c) /\ InParty(c)'
             /\ startedRound[c] = round /\ startedRound'[c] = startedRound[c]
             /\ boardTarget[c] = targetWord ) =>
              boardTarget'[c] = targetWord'
    ]_vars

\* C37: while the party is choosing, wordQueue[wordSetterIndex] is defined
\* and is the id of a player of the party.
C37_SetterIsPlayer ==
  status = "choosing" => (LiveSetter # NIL /\ LiveSetter \in PlayerIds)

\* the ids of the clients that have created or joined the party and have not
\* left it
Members == {mpPlayerId[c] : c \in {k \in Clients : mpPartyRef[k]}}
\* C38: a player that has left stays out of the store: while the party
\* exists, the keys of players are exactly the ids of the clients that have
\* created or joined the party and have not left it since.
C38_DepartedStaysOut ==
  host # NIL => PlayerIds = Members

\* C40: a step adds a key to players only when createParty() writes the
\* party, or when the party exists and is in the lobby: no player record is
\* added to a party that has left the lobby or has been deleted, and outside
\* the lobby the set of player ids only shrinks.
C40_NoLateJoiner ==
  [][ (PlayerIds' \ PlayerIds # {}) =>
        \/ host # NIL /\ status = "lobby"
        \/ host = NIL /\ host' # NIL
    ]_vars

\* the leaves of a player record that mpRecordGuess() and mpMarkDone() write
GuessFields(p) == <<p.guesses, p.guessCount, p.done, p.won>>
\* C39: a step of mpRecordGuess() or mpMarkDone() that changes guesses,
\* guessCount, done or won of a player record is taken while the status of
\* the party is playing; a guess submitted on the board in another phase
\* changes none of them.
C39_GuessWritesWhilePlaying ==
  [][ \A c \in Clients :
        ( /\ (\E g \in GuessInputs : SubmitGuess(c, g)) \/ RecordGuessCount(c)
          /\ \E id \in Ids : GuessFields(players'[id]) # GuessFields(players[id]) ) =>
          status = "playing"
    ]_vars
====
